---- MODULE Spec2Model ----
(***************************************************************************)
(* Model of the ftfrs trace-archive codec (Fuchsia Trace Format).          *)
(*                                                                         *)
(* Representation of the program's values:                                 *)
(*   u64 / i64 / f64 bits / u32 / i32   a bit vector [0..63 -> {0,1}],     *)
(*                                      bit i has weight 2^i (narrower     *)
(*                                      types keep their high bits 0)      *)
(*   u8 / u16 / usize lengths           a natural number                   *)
(*   String / &[u8] / Vec<u8>           a sequence of bytes 0..255         *)
(*   Result<T>                          [ok |-> TRUE, val, pos] or         *)
(*                                      [ok |-> FALSE, err, pos]           *)
(* u8 additions wrap modulo 256 (release profile arithmetic).              *)
(***************************************************************************)
EXTENDS Integers, Sequences, FiniteSets, TLC

VARIABLES
    host,      \* byte order of the target the crate is compiled for
    archive,   \* Archive.records last handed to a writer
    appended,  \* the records of every writer call on the sink, in call order
    sink,      \* the Vec<u8> the writers append to
    sink_before, \* the sink as it was before the last write
    nwrites,   \* number of writer calls made on the sink
    wresult,   \* Result of the last Archive::write / Record::write
    source,    \* the bytes behind the reader's Cursor
    origin,    \* where the source came from: "none", "sink" or "raw"
    rresult,   \* Result of the last Archive::read / Record::read
    op,        \* the last operation performed
    call,      \* arguments of the last call of a function that does no I/O
    ret        \* what that call returned

vars == <<host, archive, appended, sink, sink_before, nwrites, wresult, source, origin,
          rresult, op, call, ret>>

(***************************************************************************)
(* Bit and word primitives                                                 *)
(***************************************************************************)
RECURSIVE Pow2(_)
Pow2(n) == IF n = 0 THEN 1 ELSE 2 * Pow2(n - 1)

DivCeil(n, d) == (n + d - 1) \div d

Zero64 == [i \in 0..63 |-> 0]

\* `n as u64` for a natural number n below 2^31
AsU64(n) == [i \in 0..63 |-> IF i < 31 THEN (n \div Pow2(i)) % 2 ELSE 0]

RECURSIVE BitsToNat(_, _, _)
BitsToNat(v, lo, w) ==
    IF w = 0 THEN 0 ELSE v[lo] + 2 * BitsToNat(v, lo + 1, w - 1)

\* `v as u8`, `v as u16`, `v as usize` of a value known to fit in w bits
AsNat(v, w) == BitsToNat(v, 0, w)

BitOr(a, b) == [i \in 0..63 |-> IF a[i] = 1 \/ b[i] = 1 THEN 1 ELSE 0]

\* v << n without overflow checks: the shift amount is taken modulo 64
Shl(v, n) == [i \in 0..63 |-> IF i >= n % 64 THEN v[i - (n % 64)] ELSE 0]

extract_bits(value, i, j) ==
    [k \in 0..63 |-> IF k <= j - i THEN value[k + i] ELSE 0]

\* value & (1u64 << i) - 1, the shift without overflow checks
mask_length(value, i) == [k \in 0..63 |-> IF k < i % 64 THEN value[k] ELSE 0]

to_le_bytes(v) == [k \in 1..8 |-> BitsToNat(v, 8 * (k - 1), 8)]

to_be_bytes(v) == [k \in 1..8 |-> BitsToNat(v, 8 * (8 - k), 8)]

from_le_bytes(b) ==
    [i \in 0..63 |-> (b[(i \div 8) + 1] \div Pow2(i % 8)) % 2]

from_be_bytes(b) ==
    [i \in 0..63 |-> (b[8 - (i \div 8)] \div Pow2(i % 8)) % 2]

to_ne_bytes(v) == IF host = "le" THEN to_le_bytes(v) ELSE to_be_bytes(v)

from_ne_bytes(b) == IF host = "le" THEN from_le_bytes(b) ELSE from_be_bytes(b)

Zeros(n) == [k \in 1..n |-> 0]

(***************************************************************************)
(* Errors and results                                                      *)
(***************************************************************************)
Err(kind, raw) == [kind |-> kind, raw |-> raw]

UnexpectedEof == Err("Io.UnexpectedEof", 0)

Ok(val, pos) == [ok |-> TRUE, val |-> val, pos |-> pos]

Fail(err, pos) == [ok |-> FALSE, err |-> err, pos |-> pos]

\* a write: the bytes that reached the sink and the Result returned
Written(bytes) == [ok |-> TRUE, bytes |-> bytes]

WriteFail(err, bytes) == [ok |-> FALSE, err |-> err, bytes |-> bytes]

(***************************************************************************)
(* Result plumbing: the ? operator                                         *)
(***************************************************************************)
\* `let v = r?;` : an Err is returned to the caller as it is, the rest of
\* the function runs on an Ok
Try(r, Rest(_)) == IF r.ok THEN Rest(r) ELSE r

\* `?` on a tag conversion, which reads nothing: the cursor stays at pos
TryFrom(r, pos, Rest(_)) == IF r.ok THEN Rest(r.val) ELSE Fail(r.err, pos)

\* `match r { Ok(..) => .., Err(..) => .. }`
Match(r, OnOk(_), OnErr(_)) == IF r.ok THEN OnOk(r) ELSE OnErr(r)

(***************************************************************************)
(* wordutils.rs                                                            *)
(***************************************************************************)
\* variant: the word is returned with the cursor moved by 4 bytes only
read_u64_word_HalfStep(src, pos) ==
    IF pos + 8 > Len(src)
    THEN Fail(UnexpectedEof, Len(src))
    ELSE Ok(from_ne_bytes(SubSeq(src, pos + 1, pos + 8)), pos + 4)

\* read_exact of 8 bytes at pos (0-based); a short read moves the cursor to
\* the end of the source and reports UnexpectedEof
read_u64_word(src, pos) ==
    IF pos + 8 > Len(src)
    THEN Fail(UnexpectedEof, Len(src))
    ELSE Ok(from_ne_bytes(SubSeq(src, pos + 1, pos + 8)), pos + 8)

\* String::from_utf8: is the byte sequence well-formed UTF-8 ?
IsCont(b) == b >= 128 /\ b <= 191

\* length of the sequence a byte starts; 0 for a byte that starts none
Utf8Width(c) ==
    IF c < 128 THEN 1
    ELSE IF c >= 194 /\ c <= 223 THEN 2
    ELSE IF c >= 224 /\ c <= 239 THEN 3
    ELSE IF c >= 240 /\ c <= 244 THEN 4
    ELSE 0

\* every byte either starts a well-formed sequence that fits, or is one of
\* the continuation bytes of the sequence started just before it
ValidUtf8(b) ==
    \A i \in 1..Len(b) :
        IF IsCont(b[i])
        THEN \E k \in 1..3 :
                /\ i - k >= 1
                /\ Utf8Width(b[i - k]) > k
                /\ \A j \in 1..(k - 1) : IsCont(b[i - j])
        ELSE /\ Utf8Width(b[i]) >= 1
             /\ i + Utf8Width(b[i]) - 1 <= Len(b)
             /\ \A j \in 1..(Utf8Width(b[i]) - 1) : IsCont(b[i + j])
             /\ (b[i] = 224 => b[i + 1] >= 160)
             /\ (b[i] = 237 => b[i + 1] <= 159)
             /\ (b[i] = 240 => b[i + 1] >= 144)
             /\ (b[i] = 244 => b[i + 1] <= 143)

from_utf8(buf, pos) ==
    IF ValidUtf8(buf) THEN Ok(buf, pos) ELSE Fail(Err("Utf8", 0), pos)

Panic(pos) == Fail(Err("panic", 0), pos)

\* variant: the buffer length is rounded down instead of up
read_aligned_str_FloorLength(src, pos, len) ==
    LET bytes_to_read == (len \div 8) * 8
    IN IF pos + bytes_to_read > Len(src)
       THEN Fail(UnexpectedEof, Len(src))
       ELSE LET buf == SubSeq(src, pos + 1, pos + bytes_to_read)
                end == pos + bytes_to_read
            IN IF len % 8 = 0
               THEN from_utf8(buf, end)
               ELSE IF len > Len(buf)
                    THEN Panic(end)
                    ELSE from_utf8(SubSeq(buf, 1, len), end)

read_aligned_str(src, pos, len) ==
    LET bytes_to_read == DivCeil(len, 8) * 8
    IN IF pos + bytes_to_read > Len(src)
       THEN Fail(UnexpectedEof, Len(src))
       ELSE LET buf == SubSeq(src, pos + 1, pos + bytes_to_read)
                end == pos + bytes_to_read
            IN IF len % 8 = 0
               THEN from_utf8(buf, end)
               ELSE IF len > Len(buf)
                    THEN Panic(end)        \* buf[0..len] out of range
                    ELSE from_utf8(SubSeq(buf, 1, len), end)

\* variant: the zero bytes are written without looking at the remainder
pad_and_write_string_AlwaysPads(input) ==
    input \o Zeros(8 - (Len(input) % 8))

pad_and_write_string(input) ==
    LET remainder == Len(input) % 8
    IN IF remainder # 0 THEN input \o Zeros(8 - remainder) ELSE input

\* wordutils::pad_to_multiple_of_8: the input right-padded with zero bytes
\* to the next multiple of 8
pad_to_multiple_of_8(bytes) ==
    bytes \o Zeros((8 - (Len(bytes) % 8)) % 8)

(***************************************************************************)
(* header.rs                                                               *)
(***************************************************************************)
RecordTypeTag(t) ==
    CASE t = "Metadata" -> 0 [] t = "Initialization" -> 1 [] t = "String" -> 2
      [] t = "Thread" -> 3 [] t = "Event" -> 4 [] t = "Blob" -> 5
      [] t = "Userspace" -> 6 [] t = "Kernel" -> 7 [] t = "Scheduling" -> 8
      [] t = "Log" -> 9 [] t = "LargeBlob" -> 15

\* variant: the LargeBlob tag 15 is not recognised
RecordType_try_from_NoLargeBlob(value) ==
    CASE value = 0 -> Ok("Metadata", 0) [] value = 1 -> Ok("Initialization", 0)
      [] value = 2 -> Ok("String", 0) [] value = 3 -> Ok("Thread", 0)
      [] value = 4 -> Ok("Event", 0) [] value = 5 -> Ok("Blob", 0)
      [] value = 6 -> Ok("Userspace", 0) [] value = 7 -> Ok("Kernel", 0)
      [] value = 8 -> Ok("Scheduling", 0) [] value = 9 -> Ok("Log", 0)
      [] OTHER -> Fail(Err("InvalidRecordType", value), 0)

\* TryFrom<u8> for RecordType
RecordType_try_from(value) ==
    CASE value = 0 -> Ok("Metadata", 0) [] value = 1 -> Ok("Initialization", 0)
      [] value = 2 -> Ok("String", 0) [] value = 3 -> Ok("Thread", 0)
      [] value = 4 -> Ok("Event", 0) [] value = 5 -> Ok("Blob", 0)
      [] value = 6 -> Ok("Userspace", 0) [] value = 7 -> Ok("Kernel", 0)
      [] value = 8 -> Ok("Scheduling", 0) [] value = 9 -> Ok("Log", 0)
      [] value = 15 -> Ok("LargeBlob", 0)
      [] OTHER -> Fail(Err("InvalidRecordType", value), 0)

CustomField(width, value) == [width |-> width, value |-> value]

RECURSIVE BuildFields(_, _, _)
BuildFields(res, offset, fields) ==
    IF fields = <<>> THEN res
    ELSE LET field == Head(fields)
         IN BuildFields(
                BitOr(res, Shl(mask_length(field.value, field.width), offset)),
                (offset + field.width) % 256,
                Tail(fields))

\* RecordHeader::build(record_type, record_size: u8, fields)
RecordHeader_build(record_type, record_size, fields) ==
    BuildFields(
        BitOr(AsU64(RecordTypeTag(record_type)), Shl(AsU64(record_size), 4)),
        4 + 12,
        fields)

\* with overflow checks (the default of a dev build) the shift by
\* field.width, the shift by offset and offset += field.width panic
RECURSIVE RecordHeader_build_panics(_, _)
RecordHeader_build_panics(offset, fields) ==
    /\ fields # <<>>
    /\ \/ Head(fields).width >= 64
       \/ offset >= 64
       \/ offset + Head(fields).width > 255
       \/ RecordHeader_build_panics(offset + Head(fields).width, Tail(fields))

\* what RecordHeader::build returns: Ok always, or no return at all where a
\* build with overflow checks panics
RecordHeader_build_results(record_type, record_size, fields) ==
    {Ok(RecordHeader_build(record_type, record_size, fields), 0)}
    \cup (IF RecordHeader_build_panics(4 + 12, fields) THEN {Panic(0)} ELSE {})

RecordHeader_size(value) == AsNat(extract_bits(value, 4, 15), 12)

RecordHeader_record_type(value) ==
    RecordType_try_from(AsNat(extract_bits(value, 0, 3), 4))

(***************************************************************************)
(* lib.rs: StringRef and ThreadRef                                         *)
(***************************************************************************)
Inline(s) == [inline |-> TRUE, s |-> s]

Ref(r) == [inline |-> FALSE, r |-> r]

StringRef_to_field(x) ==
    IF x.inline
    THEN LET l == Len(x.s) % 65536          \* s.len() as u16
         IN IF (l \div 32768) % 2 = 1 THEN l ELSE l + 32768
    ELSE x.r % 32768

StringRef_field_is_ref(field) == (field \div 32768) % 2 = 0

StringRef_encoding_num_words(x) ==
    IF x.inline THEN DivCeil(Len(x.s), 8) % 256 ELSE 0

InlineThread(process_koid, thread_koid) ==
    [inline |-> TRUE, process_koid |-> process_koid, thread_koid |-> thread_koid]

ThreadRef_to_field(t) == IF t.inline THEN 0 ELSE t.r

(***************************************************************************)
(* argument.rs: writing                                                    *)
(***************************************************************************)
ArgumentTypeTag(t) ==
    CASE t = "Null" -> 0 [] t = "Int32" -> 1 [] t = "UInt32" -> 2
      [] t = "Int64" -> 3 [] t = "UInt64" -> 4 [] t = "Float" -> 5
      [] t = "Str" -> 6 [] t = "Pointer" -> 7 [] t = "KernelObjectId" -> 8
      [] t = "Boolean" -> 9

\* variant: every tag from 9 upward is taken for Boolean
ArgumentType_try_from_OpenRange(value) ==
    CASE value = 0 -> Ok("Null", 0) [] value = 1 -> Ok("Int32", 0)
      [] value = 2 -> Ok("UInt32", 0) [] value = 3 -> Ok("Int64", 0)
      [] value = 4 -> Ok("UInt64", 0) [] value = 5 -> Ok("Float", 0)
      [] value = 6 -> Ok("Str", 0) [] value = 7 -> Ok("Pointer", 0)
      [] value = 8 -> Ok("KernelObjectId", 0)
      [] OTHER -> Ok("Boolean", 0)

\* TryFrom<u8> for ArgumentType
ArgumentType_try_from(value) ==
    CASE value = 0 -> Ok("Null", 0) [] value = 1 -> Ok("Int32", 0)
      [] value = 2 -> Ok("UInt32", 0) [] value = 3 -> Ok("Int64", 0)
      [] value = 4 -> Ok("UInt64", 0) [] value = 5 -> Ok("Float", 0)
      [] value = 6 -> Ok("Str", 0) [] value = 7 -> Ok("Pointer", 0)
      [] value = 8 -> Ok("KernelObjectId", 0) [] value = 9 -> Ok("Boolean", 0)
      [] OTHER -> Fail(Err("InvalidArgumentType", value), 0)

\* The Argument variants.  A 32-bit value is held as its bit pattern (i32 in
\* two's complement), a Float as f64::to_bits.
ArgNull(name) == [type |-> "Null", name |-> name]

ArgNum(type, name, value) == [type |-> type, name |-> name, value |-> value]

ArgStr(name, str) == [type |-> "Str", name |-> name, str |-> str]

ArgBoolean(name, flag) == [type |-> "Boolean", name |-> name, flag |-> flag]

\* variant: the word of a 64-bit value is not counted
Argument_encoding_num_words_ValueUncounted(a) ==
    LET name_words == (0 + StringRef_encoding_num_words(a.name)) % 256
        rest == CASE a.type \in {"Null", "Int32", "UInt32", "Boolean"} -> 1
                  [] a.type \in {"Int64", "UInt64", "Pointer",
                                 "KernelObjectId", "Float"} -> 1
                  [] a.type = "Str" -> IF a.str.inline THEN 2 ELSE 1
    IN (name_words + rest) % 256

Argument_encoding_num_words(a) ==
    LET name_words == (0 + StringRef_encoding_num_words(a.name)) % 256
        rest == CASE a.type \in {"Null", "Int32", "UInt32", "Boolean"} -> 1
                  [] a.type \in {"Int64", "UInt64", "Pointer",
                                 "KernelObjectId", "Float"} -> 2
                  [] a.type = "Str" -> IF a.str.inline THEN 2 ELSE 1
    IN (name_words + rest) % 256

Argument_create_header(arg_type, arg_name, num_words, data) ==
    BitOr(BitOr(BitOr(AsU64(ArgumentTypeTag(arg_type)),
                      Shl(AsU64(num_words), 4)),
                Shl(AsU64(StringRef_to_field(arg_name)), 16)),
          Shl(mask_length(data, 32), 32))

Argument_write_header_and_name(a, data) ==
    LET num_words == Argument_encoding_num_words(a)
        header == Argument_create_header(a.type, a.name, num_words, data)
    IN to_ne_bytes(header)
       \o (IF a.name.inline THEN pad_to_multiple_of_8(a.name.s) ELSE <<>>)

\* Argument::write: the bytes appended to the writer
Argument_write(a) ==
    CASE a.type = "Null" -> Argument_write_header_and_name(a, Zero64)
      [] a.type \in {"Int32", "UInt32"} ->
            Argument_write_header_and_name(a, a.value)
      [] a.type \in {"Int64", "UInt64", "Float", "Pointer", "KernelObjectId"} ->
            Argument_write_header_and_name(a, Zero64) \o to_ne_bytes(a.value)
      [] a.type = "Str" ->
            Argument_write_header_and_name(a, AsU64(StringRef_to_field(a.str)))
            \o (IF a.str.inline THEN pad_to_multiple_of_8(a.str.s) ELSE <<>>)
      [] a.type = "Boolean" ->
            Argument_write_header_and_name(a, AsU64(IF a.flag THEN 1 ELSE 0))

(***************************************************************************)
(* event.rs: writing                                                       *)
(***************************************************************************)
EventTypeTag(t) ==
    CASE t = "Instant" -> 0 [] t = "Counter" -> 1 [] t = "DurationBegin" -> 2
      [] t = "DurationEnd" -> 3 [] t = "DurationComplete" -> 4
      [] t = "AsyncBegin" -> 5 [] t = "AsyncInstant" -> 6 [] t = "AsyncEnd" -> 7
      [] t = "FlowBegin" -> 8 [] t = "FlowStep" -> 9 [] t = "FlowEnd" -> 10

\* variant: the FlowEnd tag 10 is not recognised
EventType_try_from_NoFlowEnd(value) ==
    CASE value = 0 -> Ok("Instant", 0) [] value = 1 -> Ok("Counter", 0)
      [] value = 2 -> Ok("DurationBegin", 0) [] value = 3 -> Ok("DurationEnd", 0)
      [] value = 4 -> Ok("DurationComplete", 0)
      [] value = 5 -> Ok("AsyncBegin", 0) [] value = 6 -> Ok("AsyncInstant", 0)
      [] value = 7 -> Ok("AsyncEnd", 0) [] value = 8 -> Ok("FlowBegin", 0)
      [] value = 9 -> Ok("FlowStep", 0)
      [] OTHER -> Fail(Err("InvalidEventType", value), 0)

\* TryFrom<u8> for EventType
EventType_try_from(value) ==
    CASE value = 0 -> Ok("Instant", 0) [] value = 1 -> Ok("Counter", 0)
      [] value = 2 -> Ok("DurationBegin", 0) [] value = 3 -> Ok("DurationEnd", 0)
      [] value = 4 -> Ok("DurationComplete", 0)
      [] value = 5 -> Ok("AsyncBegin", 0) [] value = 6 -> Ok("AsyncInstant", 0)
      [] value = 7 -> Ok("AsyncEnd", 0) [] value = 8 -> Ok("FlowBegin", 0)
      [] value = 9 -> Ok("FlowStep", 0) [] value = 10 -> Ok("FlowEnd", 0)
      [] OTHER -> Fail(Err("InvalidEventType", value), 0)

RECURSIVE SumArgWords(_, _)
SumArgWords(num_words, arguments) ==
    IF arguments = <<>> THEN num_words
    ELSE SumArgWords(
             (num_words + Argument_encoding_num_words(Head(arguments))) % 256,
             Tail(arguments))

\* variant: the arguments are written last to first
RECURSIVE WriteArguments_Reversed(_)
WriteArguments_Reversed(arguments) ==
    IF arguments = <<>> THEN <<>>
    ELSE WriteArguments_Reversed(Tail(arguments)) \o Argument_write(Head(arguments))

RECURSIVE WriteArguments(_)
WriteArguments(arguments) ==
    IF arguments = <<>> THEN <<>>
    ELSE Argument_write(Head(arguments)) \o WriteArguments(Tail(arguments))

\* Event::write_event(event_type, event_extra_word); the Option is a sequence
\* of zero or one word
Event_write_event(e, event_type, event_extra_word) ==
    LET n0 == 1 + 1
        n1 == IF e.thread.inline THEN (n0 + 2) % 256 ELSE n0
        n2 == (n1 + StringRef_encoding_num_words(e.category)) % 256
        n3 == (n2 + StringRef_encoding_num_words(e.name)) % 256
        num_words == SumArgWords(n3, e.arguments)
        header == RecordHeader_build("Event",
                      (num_words + Len(event_extra_word)) % 256,
                      << CustomField(4, AsU64(EventTypeTag(event_type))),
                         CustomField(4, AsU64(Len(e.arguments))),
                         CustomField(8, AsU64(ThreadRef_to_field(e.thread))),
                         CustomField(16, AsU64(StringRef_to_field(e.category))),
                         CustomField(16, AsU64(StringRef_to_field(e.name))) >>)
    IN to_le_bytes(header)
       \o to_le_bytes(e.timestamp)
       \o (IF e.thread.inline
           THEN to_le_bytes(e.thread.process_koid)
                \o to_le_bytes(e.thread.thread_koid)
           ELSE <<>>)
       \o (IF e.category.inline THEN pad_and_write_string(e.category.s) ELSE <<>>)
       \o (IF e.name.inline THEN pad_and_write_string(e.name.s) ELSE <<>>)
       \o WriteArguments(e.arguments)
       \o (IF event_extra_word # <<>> THEN to_le_bytes(event_extra_word[1])
           ELSE <<>>)

Unimplemented == Err("Unimplemented", 0)

\* EventRecord::write
EventRecord_write(r) ==
    CASE r.event_type = "Counter" ->
            Written(Event_write_event(r, "Counter", <<r.counter_id>>))
      [] r.event_type = "Instant" ->
            Written(Event_write_event(r, "Instant", <<>>))
      [] r.event_type = "DurationBegin" ->
            Written(Event_write_event(r, "DurationBegin", <<>>))
      [] r.event_type = "DurationEnd" ->
            Written(Event_write_event(r, "DurationEnd", <<>>))
      [] r.event_type = "DurationComplete" ->
            Written(Event_write_event(r, "DurationComplete", <<r.end_ts>>))
      [] OTHER -> WriteFail(Unimplemented, <<>>)

\* The word counts above are u8 sums taken modulo 256, as a build without
\* overflow checks computes them.  A build with overflow checks panics in
\* the first sum that exceeds 255, before anything is written.
Argument_encoding_num_words_overflows(a) ==
    StringRef_encoding_num_words(a.name)
    + (IF a.type \in {"Null", "Int32", "UInt32", "Boolean"} THEN 1
       ELSE IF a.type = "Str" /\ ~a.str.inline THEN 1 ELSE 2) > 255

RECURSIVE SumArgWords_overflows(_, _)
SumArgWords_overflows(num_words, arguments) ==
    /\ arguments # <<>>
    /\ \/ Argument_encoding_num_words_overflows(Head(arguments))
       \/ num_words + Argument_encoding_num_words(Head(arguments)) > 255
       \/ SumArgWords_overflows(
              (num_words + Argument_encoding_num_words(Head(arguments))) % 256,
              Tail(arguments))

Event_write_event_overflows(e, event_extra_word) ==
    LET n1 == IF e.thread.inline THEN 1 + 1 + 2 ELSE 1 + 1
        n2 == (n1 + StringRef_encoding_num_words(e.category)) % 256
        n3 == (n2 + StringRef_encoding_num_words(e.name)) % 256
    IN \/ n1 + StringRef_encoding_num_words(e.category) > 255
       \/ n2 + StringRef_encoding_num_words(e.name) > 255
       \/ SumArgWords_overflows(n3, e.arguments)
       \/ SumArgWords(n3, e.arguments) + Len(event_extra_word) > 255

\* what EventRecord::write can do: the result of the wrapping sums, or a
\* panic where a build with overflow checks overflows
EventRecord_write_results(r) ==
    {EventRecord_write(r)}
    \cup (IF /\ EventRecord_write(r).ok
              /\ Event_write_event_overflows(r,
                     IF r.event_type \in {"Counter", "DurationComplete"}
                     THEN <<Zero64>> ELSE <<>>)
          THEN {WriteFail(Err("panic", 0), <<>>)} ELSE {})

(***************************************************************************)
(* metadata.rs, initialization.rs, string_rec.rs, thread_rec.rs: writing   *)
(***************************************************************************)
MetadataTypeTag(t) ==
    CASE t = "ProviderInfo" -> 1 [] t = "ProviderSection" -> 2
      [] t = "ProviderEvent" -> 3 [] t = "TraceInfo" -> 4

MetadataType_try_from(value) ==
    CASE value = 1 -> Ok("ProviderInfo", 0) [] value = 2 -> Ok("ProviderSection", 0)
      [] value = 3 -> Ok("ProviderEvent", 0) [] value = 4 -> Ok("TraceInfo", 0)
      [] OTHER -> Fail(Err("InvalidMetadataType", value), 0)

\* 0x0016547846040010, least significant byte first
MAGIC_NUMBER_RECORD == from_le_bytes(<<16, 0, 4, 70, 120, 84, 22, 0>>)

\* TraceInfo::new(trace_info_type, data: &[u8; 5])
TraceInfo_new(trace_info_type, data) ==
    [kind |-> "TraceInfo", trace_info_type |-> trace_info_type,
     data |-> from_be_bytes(<<0, 0, 0, data[1], data[2], data[3], data[4], data[5]>>)]

TraceInfo_write(r) ==
    to_le_bytes(RecordHeader_build("Metadata", 1,
        << CustomField(4, AsU64(MetadataTypeTag("TraceInfo"))),
           CustomField(4, AsU64(r.trace_info_type)),
           CustomField(40, r.data) >>))

ProviderInfo_write(r) ==
    LET size == 1 + ((Len(r.provider_name) + 7) \div 8)
    IN to_le_bytes(RecordHeader_build("Metadata", size % 256,
           << CustomField(4, AsU64(MetadataTypeTag("ProviderInfo"))),
              CustomField(32, r.provider_id),
              CustomField(8, AsU64(Len(r.provider_name))) >>))
       \o pad_to_multiple_of_8(r.provider_name)

ProviderSection_write(r) ==
    to_le_bytes(RecordHeader_build("Metadata", 1,
        << CustomField(4, AsU64(MetadataTypeTag("ProviderSection"))),
           CustomField(32, r.provider_id) >>))

ProviderEvent_write(r) ==
    to_le_bytes(RecordHeader_build("Metadata", 1,
        << CustomField(4, AsU64(MetadataTypeTag("ProviderEvent"))),
           CustomField(32, r.provider_id),
           CustomField(4, AsU64(r.event_id)) >>))

\* variant: the magic number is written most significant byte first
MetadataRecord_write_MagicBigEndian(r) ==
    CASE r.kind = "MagicNumber" -> to_be_bytes(MAGIC_NUMBER_RECORD)
      [] r.kind = "ProviderEvent" -> ProviderEvent_write(r)
      [] r.kind = "ProviderInfo" -> ProviderInfo_write(r)
      [] r.kind = "ProviderSection" -> ProviderSection_write(r)
      [] r.kind = "TraceInfo" -> TraceInfo_write(r)

MetadataRecord_write(r) ==
    CASE r.kind = "MagicNumber" -> to_le_bytes(MAGIC_NUMBER_RECORD)
      [] r.kind = "ProviderEvent" -> ProviderEvent_write(r)
      [] r.kind = "ProviderInfo" -> ProviderInfo_write(r)
      [] r.kind = "ProviderSection" -> ProviderSection_write(r)
      [] r.kind = "TraceInfo" -> TraceInfo_write(r)

InitializationRecord_write(r) ==
    to_le_bytes(RecordHeader_build("Initialization", 2, <<>>))
    \o to_le_bytes(r.ticks_per_second)

StringRecord_write(r) ==
    LET num_words == 1 + DivCeil(Len(r.value), 8)
    IN to_le_bytes(RecordHeader_build("String", num_words % 256,
           << CustomField(15, AsU64(r.index)),
              CustomField(1, Zero64),
              CustomField(15, AsU64(Len(r.value))) >>))
       \o pad_and_write_string(r.value)

ThreadRecord_write(r) ==
    to_le_bytes(RecordHeader_build("Thread", 3,
        << CustomField(8, AsU64(r.index)) >>))
    \o to_le_bytes(r.process_koid)
    \o to_le_bytes(r.thread_koid)

(***************************************************************************)
(* lib.rs: Record::write and Archive::write                                *)
(***************************************************************************)
MetadataKinds ==
    {"MagicNumber", "ProviderInfo", "ProviderSection", "ProviderEvent", "TraceInfo"}

UnsupportedKinds ==
    {"Blob", "Userspace", "Kernel", "Scheduling", "Log", "LargeBlob"}

Record_write(r) ==
    CASE r.kind \in MetadataKinds -> Written(MetadataRecord_write(r))
      [] r.kind = "Initialization" -> Written(InitializationRecord_write(r))
      [] r.kind = "String" -> Written(StringRecord_write(r))
      [] r.kind = "Thread" -> Written(ThreadRecord_write(r))
      [] r.kind = "Event" -> EventRecord_write(r)
      [] OTHER -> WriteFail(Err("Unimplemented", 0), <<>>)

\* variant: a record that cannot be written is skipped and the loop goes on
RECURSIVE ArchiveWriteLoop_SkipsUnwritable(_, _)
ArchiveWriteLoop_SkipsUnwritable(records, written) ==
    IF records = <<>> THEN Written(written)
    ELSE Match(Record_write(Head(records)),
               LAMBDA w : ArchiveWriteLoop_SkipsUnwritable(Tail(records),
                                                           written \o w.bytes),
               LAMBDA e : WriteFail(e.err,
                              ArchiveWriteLoop_SkipsUnwritable(
                                  Tail(records), written \o e.bytes).bytes))

RECURSIVE ArchiveWriteLoop(_, _)
ArchiveWriteLoop(records, written) ==
    IF records = <<>> THEN Written(written)
    ELSE Match(Record_write(Head(records)),
               LAMBDA w : ArchiveWriteLoop(Tail(records), written \o w.bytes),
               LAMBDA e : WriteFail(e.err, written \o e.bytes))

Archive_write(records) == ArchiveWriteLoop(records, <<>>)

(***************************************************************************)
(* argument.rs: reading                                                    *)
(***************************************************************************)
\* a 16-bit string-ref field decoded at pos: a reference, or the inline
\* string read from the source
ReadStringRef(src, pos, field) ==
    IF StringRef_field_is_ref(field)
    THEN Ok(Ref(field), pos)
    ELSE Try(read_aligned_str(src, pos, field % 32768),
             LAMBDA s : Ok(Inline(s.val), s.pos))

Argument_read(src, pos) ==
    Try(read_u64_word(src, pos), LAMBDA h :
    TryFrom(ArgumentType_try_from(AsNat(extract_bits(h.val, 0, 3), 4)), h.pos,
            LAMBDA arg_type :
    Try(ReadStringRef(src, h.pos, AsNat(extract_bits(h.val, 16, 31), 16)),
        LAMBDA arg_name :
        CASE arg_type = "Null" -> Ok(ArgNull(arg_name.val), arg_name.pos)
          [] arg_type \in {"Int32", "UInt32"} ->
                Ok(ArgNum(arg_type, arg_name.val, extract_bits(h.val, 32, 63)),
                   arg_name.pos)
          [] arg_type \in {"Int64", "UInt64", "Float", "Pointer",
                           "KernelObjectId"} ->
                Try(read_u64_word(src, arg_name.pos),
                    LAMBDA w : Ok(ArgNum(arg_type, arg_name.val, w.val), w.pos))
          [] arg_type = "Str" ->
                Try(ReadStringRef(src, arg_name.pos,
                                  AsNat(extract_bits(h.val, 32, 47), 16)),
                    LAMBDA arg_value :
                        Ok(ArgStr(arg_name.val, arg_value.val), arg_value.pos))
          [] arg_type = "Boolean" ->
                Ok(ArgBoolean(arg_name.val,
                              AsNat(extract_bits(h.val, 32, 32), 1) = 1),
                   arg_name.pos))))

(***************************************************************************)
(* event.rs: reading                                                       *)
(***************************************************************************)
RECURSIVE ReadArguments(_, _, _, _)
ReadArguments(src, pos, n_args, arguments) ==
    IF n_args = 0 THEN Ok(arguments, pos)
    ELSE Try(Argument_read(src, pos), LAMBDA arg :
             ReadArguments(src, arg.pos, n_args - 1, Append(arguments, arg.val)))

ReadThreadRef(src, pos, thread) ==
    IF thread = 0
    THEN Try(read_u64_word(src, pos), LAMBDA process_koid :
         Try(read_u64_word(src, process_koid.pos), LAMBDA thread_koid :
             Ok(InlineThread(process_koid.val, thread_koid.val),
                thread_koid.pos)))
    ELSE Ok(Ref(thread), pos)

\* EventRecord::parse_event: Ok carries the event type and the Event fields
EventRecord_parse_event(src, pos, header) ==
    TryFrom(EventType_try_from(AsNat(extract_bits(header, 16, 19), 4)), pos,
            LAMBDA event_type :
    Try(read_u64_word(src, pos), LAMBDA timestamp :
    Try(ReadThreadRef(src, timestamp.pos,
                      AsNat(extract_bits(header, 24, 31), 8)), LAMBDA thread :
    Try(ReadStringRef(src, thread.pos,
                      AsNat(extract_bits(header, 32, 47), 16)), LAMBDA category :
    Try(ReadStringRef(src, category.pos,
                      AsNat(extract_bits(header, 48, 63), 16)), LAMBDA name :
    Try(ReadArguments(src, name.pos,
                      AsNat(extract_bits(header, 20, 23), 4), <<>>),
        LAMBDA arguments :
            Ok([kind |-> "Event", event_type |-> event_type,
                timestamp |-> timestamp.val,
                thread |-> thread.val,
                category |-> category.val,
                name |-> name.val,
                arguments |-> arguments.val],
               arguments.pos)))))))

EventRecord_parse(src, pos, header) ==
    Try(EventRecord_parse_event(src, pos, header), LAMBDA e :
        CASE e.val.event_type \in {"Instant", "DurationBegin", "DurationEnd"} -> e
          [] e.val.event_type = "Counter" ->
                Try(read_u64_word(src, e.pos), LAMBDA counter_id :
                    Ok([kind |-> "Event", event_type |-> "Counter",
                        timestamp |-> e.val.timestamp,
                        thread |-> e.val.thread,
                        category |-> e.val.category,
                        name |-> e.val.name,
                        arguments |-> e.val.arguments,
                        counter_id |-> counter_id.val],
                       counter_id.pos))
          [] e.val.event_type = "DurationComplete" ->
                Try(read_u64_word(src, e.pos), LAMBDA duration_ticks :
                    Ok([kind |-> "Event", event_type |-> "DurationComplete",
                        timestamp |-> e.val.timestamp,
                        thread |-> e.val.thread,
                        category |-> e.val.category,
                        name |-> e.val.name,
                        arguments |-> e.val.arguments,
                        end_ts |-> duration_ticks.val],
                       duration_ticks.pos))
          [] OTHER -> Fail(Unimplemented, e.pos))

(***************************************************************************)
(* metadata.rs, initialization.rs, string_rec.rs, thread_rec.rs: reading   *)
(***************************************************************************)
MetadataRecord_provider_id(header) == extract_bits(header, 20, 51)

MetadataRecord_parse(src, pos, header) ==
    IF header = MAGIC_NUMBER_RECORD
    THEN Ok([kind |-> "MagicNumber"], pos)
    ELSE
    TryFrom(MetadataType_try_from(AsNat(extract_bits(header, 16, 19), 4)), pos,
            LAMBDA metadata_type :
        CASE metadata_type = "ProviderInfo" ->
                Try(read_aligned_str(src, pos,
                                     AsNat(extract_bits(header, 52, 59), 8)),
                    LAMBDA provider_name :
                        Ok([kind |-> "ProviderInfo",
                            provider_id |-> MetadataRecord_provider_id(header),
                            provider_name |-> provider_name.val],
                           provider_name.pos))
          [] metadata_type = "ProviderSection" ->
                Ok([kind |-> "ProviderSection",
                    provider_id |-> MetadataRecord_provider_id(header)], pos)
          [] metadata_type = "ProviderEvent" ->
                Ok([kind |-> "ProviderEvent",
                    provider_id |-> MetadataRecord_provider_id(header),
                    event_id |-> AsNat(extract_bits(header, 52, 55), 4)], pos)
          [] metadata_type = "TraceInfo" ->
                Ok([kind |-> "TraceInfo",
                    trace_info_type |-> AsNat(extract_bits(header, 20, 23), 4),
                    data |-> extract_bits(header, 24, 63)], pos))

InitializationRecord_parse(src, pos, header) ==
    Try(read_u64_word(src, pos), LAMBDA ticks_per_second :
        Ok([kind |-> "Initialization",
            ticks_per_second |-> ticks_per_second.val],
           ticks_per_second.pos))

StringRecord_parse(src, pos, header) ==
    Try(read_aligned_str(src, pos, AsNat(extract_bits(header, 32, 46), 15)),
        LAMBDA value :
            Ok([kind |-> "String",
                index |-> AsNat(extract_bits(header, 16, 30), 15),
                value |-> value.val],
               value.pos))

\* variant: the cursor is left where the size field says the record ends
ThreadRecord_parse_EndsAtSize(src, pos, header) ==
    Try(read_u64_word(src, pos), LAMBDA process_koid :
    Try(read_u64_word(src, process_koid.pos), LAMBDA thread_koid :
        Ok([kind |-> "Thread",
            index |-> AsNat(extract_bits(header, 16, 23), 8),
            process_koid |-> process_koid.val,
            thread_koid |-> thread_koid.val],
           pos - 8 + 8 * RecordHeader_size(header))))

ThreadRecord_parse(src, pos, header) ==
    Try(read_u64_word(src, pos), LAMBDA process_koid :
    Try(read_u64_word(src, process_koid.pos), LAMBDA thread_koid :
        Ok([kind |-> "Thread",
            index |-> AsNat(extract_bits(header, 16, 23), 8),
            process_koid |-> process_koid.val,
            thread_koid |-> thread_koid.val],
           thread_koid.pos)))

(***************************************************************************)
(* lib.rs: Record::read and Archive::read                                  *)
(***************************************************************************)
Record_read(src, pos) ==
    Try(read_u64_word(src, pos), LAMBDA h :
    TryFrom(RecordHeader_record_type(h.val), h.pos, LAMBDA record_type :
        CASE record_type = "Metadata" ->
                MetadataRecord_parse(src, h.pos, h.val)
          [] record_type = "Initialization" ->
                InitializationRecord_parse(src, h.pos, h.val)
          [] record_type = "String" ->
                StringRecord_parse(src, h.pos, h.val)
          [] record_type = "Thread" ->
                ThreadRecord_parse(src, h.pos, h.val)
          [] record_type = "Event" ->
                EventRecord_parse(src, h.pos, h.val)
          [] OTHER ->
                Fail(Err("UnsupportedRecordType", RecordTypeTag(record_type)),
                     h.pos)))

\* variant: every error of Record::read, end of stream included, is returned
RECURSIVE ArchiveReadLoop_EofIsError(_, _, _)
ArchiveReadLoop_EofIsError(src, pos, res) ==
    Match(Record_read(src, pos),
          LAMBDA r : ArchiveReadLoop_EofIsError(src, r.pos, Append(res, r.val)),
          LAMBDA e : Fail(e.err, e.pos))

\* variant: the record that ends at the end of the stream is not kept
RECURSIVE ArchiveReadLoop_DropsLast(_, _, _)
ArchiveReadLoop_DropsLast(src, pos, res) ==
    Match(Record_read(src, pos),
          LAMBDA r : IF r.pos = Len(src) THEN Ok(res, r.pos)
                     ELSE ArchiveReadLoop_DropsLast(src, r.pos, Append(res, r.val)),
          LAMBDA e : IF e.err = UnexpectedEof THEN Ok(res, e.pos)
                     ELSE Fail(e.err, e.pos))

\* variant: a magic number is accepted only as the first record of a stream
RECURSIVE ArchiveReadLoop_MagicMustLead(_, _, _)
ArchiveReadLoop_MagicMustLead(src, pos, res) ==
    Match(Record_read(src, pos),
          LAMBDA r : IF r.val.kind = "MagicNumber" /\ res # <<>>
                     THEN Fail(Err("InvalidMetadataType", 0), r.pos)
                     ELSE ArchiveReadLoop_MagicMustLead(src, r.pos, Append(res, r.val)),
          LAMBDA e : IF e.err = UnexpectedEof THEN Ok(res, e.pos)
                     ELSE Fail(e.err, e.pos))

\* variant: an error that is not the end of the stream ends the loop like one
RECURSIVE ArchiveReadLoop_KeepsDecoded(_, _, _)
ArchiveReadLoop_KeepsDecoded(src, pos, res) ==
    Match(Record_read(src, pos),
          LAMBDA r : ArchiveReadLoop_KeepsDecoded(src, r.pos, Append(res, r.val)),
          LAMBDA e : Ok(res, e.pos))

RECURSIVE ArchiveReadLoop(_, _, _)
ArchiveReadLoop(src, pos, res) ==
    Match(Record_read(src, pos),
          LAMBDA r : ArchiveReadLoop(src, r.pos, Append(res, r.val)),
          LAMBDA e : IF e.err = UnexpectedEof THEN Ok(res, e.pos)
                     ELSE Fail(e.err, e.pos))

Archive_read(src) == ArchiveReadLoop(src, 0, <<>>)

(***************************************************************************)
(* lib.rs: the public constructors                                         *)
(***************************************************************************)
create_magic_number == [kind |-> "MagicNumber"]

create_initialization(ticks_per_second) ==
    [kind |-> "Initialization", ticks_per_second |-> ticks_per_second]

\* index: u16
create_string(index, value) ==
    [kind |-> "String", index |-> index % 65536, value |-> value]

\* index: u8
create_thread(index, process_koid, thread_koid) ==
    [kind |-> "Thread", index |-> index % 256, process_koid |-> process_koid,
     thread_koid |-> thread_koid]

\* provider_id: u32
create_provider_info(provider_id, provider_name) ==
    [kind |-> "ProviderInfo", provider_id |-> mask_length(provider_id, 32),
     provider_name |-> provider_name]

\* provider_id: u32, event_id: u8
create_provider_event(provider_id, event_id) ==
    [kind |-> "ProviderEvent", provider_id |-> mask_length(provider_id, 32),
     event_id |-> event_id % 256]

\* provider_id: u32
create_provider_section(provider_id) ==
    [kind |-> "ProviderSection", provider_id |-> mask_length(provider_id, 32)]

\* trace_info_type: u8, data: [u8; 5]
create_trace_info(trace_info_type, data) == TraceInfo_new(trace_info_type % 256, data)

Event_new(event_type, timestamp, thread, category, name, arguments) ==
    [kind |-> "Event", event_type |-> event_type, timestamp |-> timestamp,
     thread |-> thread, category |-> category, name |-> name,
     arguments |-> arguments]

create_instant_event(timestamp, thread, category, name, arguments) ==
    Event_new("Instant", timestamp, thread, category, name, arguments)

create_duration_begin_event(timestamp, thread, category, name, arguments) ==
    Event_new("DurationBegin", timestamp, thread, category, name, arguments)

create_duration_end_event(timestamp, thread, category, name, arguments) ==
    Event_new("DurationEnd", timestamp, thread, category, name, arguments)

create_counter_event(timestamp, thread, category, name, arguments, counter_id) ==
    [kind |-> "Event", event_type |-> "Counter", timestamp |-> timestamp,
     thread |-> thread, category |-> category, name |-> name,
     arguments |-> arguments, counter_id |-> counter_id]

create_duration_complete_event(timestamp, thread, category, name, arguments, end_ts) ==
    [kind |-> "Event", event_type |-> "DurationComplete",
     timestamp |-> timestamp, thread |-> thread, category |-> category,
     name |-> name, arguments |-> arguments, end_ts |-> end_ts]

\* the enum variants that have no constructor
UnsupportedRecord(kind) == [kind |-> kind]

AsyncFlowTypes ==
    {"AsyncBegin", "AsyncInstant", "AsyncEnd", "FlowBegin", "FlowStep", "FlowEnd"}

AsyncFlowEvent(event_type) == [kind |-> "Event", event_type |-> event_type]

(***************************************************************************)
(* Inputs: the values the operations are exercised on                      *)
(***************************************************************************)
MaxRecords == 3        \* longest archive built from CoreRecords
MaxWrites == 2         \* writer calls on one sink
MaxPayloadWords == 2   \* words following the header in a hand-made stream
MaxCut == 16           \* bytes missing from the end of a truncated stream

U64Max == [i \in 0..63 |-> 1]

U32Max == [i \in 0..63 |-> IF i < 32 THEN 1 ELSE 0]

S_cat == <<99, 97, 116>>                                    \* "cat"
S_debug == <<100, 101, 98, 117, 103>>                       \* "debug"
S_category == <<99, 97, 116, 101, 103, 111, 114, 121>>      \* "category"
S_operation == <<111, 112, 101, 114, 97, 116, 105, 111, 110>>  \* "operation"
S_utf8 == <<195, 169, 226, 130, 172>>                       \* "e-acute, euro"

A_null == ArgNull(Ref(1))
A_int32 == ArgNum("Int32", Inline(S_cat), mask_length(U64Max, 32))    \* -1
A_uint32 == ArgNum("UInt32", Ref(2), AsU64(42))
A_int64 == ArgNum("Int64", Ref(3), U64Max)                            \* -1
A_uint64 == ArgNum("UInt64", Inline(S_category), AsU64(67890))
A_uint64_ref == ArgNum("UInt64", Ref(7), AsU64(67890))
A_float == ArgNum("Float", Ref(4),
                  from_le_bytes(<<1, 0, 0, 0, 0, 0, 248, 127>>))      \* a NaN
A_str_refs == ArgStr(Ref(5), Ref(6))
A_str_inline == ArgStr(Inline(S_cat), Inline(S_category))
A_str_empty == ArgStr(Ref(5), Inline(<<>>))
A_str_long == ArgStr(Ref(5), Inline(S_operation))
A_pointer == ArgNum("Pointer", Inline(S_operation), AsU64(3735928))
A_koid == ArgNum("KernelObjectId", Ref(32767), AsU64(4660))
A_true == ArgBoolean(Ref(8), TRUE)
A_false == ArgBoolean(Inline(<<>>), FALSE)

T_ref == Ref(5)
T_inline == InlineThread(AsU64(98765), AsU64(43210))

R_magic == create_magic_number
R_string == create_string(1, S_cat)
R_thread == create_thread(1, AsU64(4660), AsU64(22136))
R_init == create_initialization(AsU64(1000000))
R_instant == create_instant_event(AsU64(1000000), T_ref, Ref(10), Ref(15), <<>>)
R_blob == UnsupportedRecord("Blob")
R_complete ==
    create_duration_complete_event(AsU64(100), Ref(1), Ref(2), Ref(3),
                                   <<A_uint64_ref>>, AsU64(250))

\* the records an archive of several records is drawn from
CoreRecords == {R_string, R_instant, R_blob}

\* the records written to a sink that already holds a write
AppendRecords == {R_string, R_blob, R_magic}

MetadataInputs ==
    { R_magic,
      create_provider_info(AsU64(42), S_cat),
      create_provider_info(U32Max, <<>>),
      create_provider_info(AsU64(42), S_category),
      create_provider_info(AsU64(7), S_operation),
      create_provider_section(AsU64(123)),
      create_provider_event(AsU64(456), 0),
      create_provider_event(AsU64(456), 15),
      create_provider_event(AsU64(456), 16),
      create_trace_info(3, <<0, 0, 171, 205, 239>>),
      create_trace_info(15, <<255, 255, 255, 255, 255>>),
      create_trace_info(0, <<0, 22, 84, 120, 70>>),
      create_trace_info(19, <<0, 0, 0, 0, 1>>) }

InternInputs ==
    { R_init, create_initialization(U64Max),
      R_string, create_string(32767, S_category), create_string(0, <<>>),
      create_string(2, S_utf8), create_string(3, S_operation),
      create_string(32769, S_cat),
      R_thread, create_thread(0, Zero64, U64Max), create_thread(255, U64Max, Zero64) }

EventInputs ==
    { R_instant,
      create_instant_event(AsU64(100), T_inline, Inline(S_debug),
                           Inline(S_operation), <<>>),
      create_instant_event(AsU64(100), Ref(1), Ref(1), Inline(S_cat), <<>>),
      create_counter_event(U64Max, Ref(1), Inline(S_cat), Ref(2),
                           <<A_int64, A_true>>, AsU64(9)),
      create_counter_event(Zero64, T_inline, Ref(0), Ref(32767), <<>>, U64Max),
      create_duration_begin_event(AsU64(5), Ref(255), Inline(<<>>),
                                  Inline(S_category), <<A_null>>),
      create_duration_end_event(AsU64(6), T_inline, Ref(2), Inline(S_utf8),
                                <<A_uint32, A_str_refs>>),
      R_complete,
      create_duration_complete_event(AsU64(100), T_inline, Inline(S_cat),
                                     Inline(S_cat), <<A_str_inline, A_float>>,
                                     AsU64(99)),
      create_instant_event(AsU64(9000000), Ref(10), Ref(20), Ref(30),
          <<A_null, A_int32, A_uint32, A_int64, A_uint64, A_float, A_str_refs,
            A_str_inline, A_pointer, A_koid, A_true, A_false>>),
      create_instant_event(AsU64(1), Ref(1), Ref(2), Ref(3), <<A_str_empty>>),
      create_instant_event(AsU64(1), Ref(1), Ref(2), Ref(3), <<A_str_long>>),
      create_instant_event(AsU64(1), Ref(0), Ref(2), Ref(3), <<>>),
      create_instant_event(AsU64(1), Ref(1), Ref(32768), Ref(3), <<>>),
      create_instant_event(AsU64(1), Ref(1), Ref(2), Ref(3),
                           [i \in 1..16 |-> A_null]) }

UnwritableInputs ==
    {UnsupportedRecord(k) : k \in UnsupportedKinds}
    \cup {AsyncFlowEvent(t) : t \in AsyncFlowTypes}

RecordInputs == MetadataInputs \cup InternInputs \cup EventInputs \cup UnwritableInputs

RECURSIVE SeqsUpTo(_, _)
SeqsUpTo(S, n) ==
    IF n = 0 THEN {<<>>}
    ELSE LET shorter == SeqsUpTo(S, n - 1)
         IN shorter \cup {Append(q, x) : q \in shorter, x \in S}

\* the archives handed to the first writer call on a sink
Archives == {<<r>> : r \in RecordInputs} \cup SeqsUpTo(CoreRecords, MaxRecords)

\* the archives handed to a later writer call on the same sink
AppendArchives == SeqsUpTo(AppendRecords, 1)

(***************************************************************************)
(* Hand-made byte streams: a header word packed field by field, followed by *)
(* payload words, possibly cut short                                       *)
(***************************************************************************)
\* consecutive (width, value) fields from bit `offset` upward, value < 2^30
RECURSIVE Pack(_, _)
Pack(offset, fields) ==
    IF fields = <<>> THEN Zero64
    ELSE LET w == Head(fields)[1]
             v == Head(fields)[2]
             rest == Pack(offset + w, Tail(fields))
         IN [i \in 0..63 |->
                IF i >= offset /\ i < offset + w
                THEN IF i - offset < 30 THEN (v \div Pow2(i - offset)) % 2 ELSE 0
                ELSE rest[i]]

Tags == 0..15

\* type, size, then the String-record layout (index 1, length 3)
PlainHeader(rt) == Pack(0, << <<4, rt>>, <<12, 2>>, <<15, 1>>, <<1, 0>>, <<15, 3>> >>)

\* metadata header: subtype, provider id 42, name length 3 / event id 3
MetadataHeader(sub) ==
    Pack(0, << <<4, 0>>, <<12, 1>>, <<4, sub>>, <<32, 42>>, <<8, 3>> >>)

EventHeader(sub, nargs, thread, category, name) ==
    Pack(0, << <<4, 4>>, <<12, 2>>, <<4, sub>>, <<4, nargs>>, <<8, thread>>,
               <<16, category>>, <<16, name>> >>)

ArgumentHeader(t, name, data) ==
    Pack(0, << <<4, t>>, <<12, 1>>, <<16, name>>, <<16, data>> >>)

\* the word v with bit i inverted
FlipBit(v, i) == [k \in 0..63 |-> IF k = i THEN 1 - v[k] ELSE v[k]]

\* the magic number with its size field, its trace-info type or its top
\* bit changed
NearMagicHeaders ==
    {FlipBit(MAGIC_NUMBER_RECORD, 5), FlipBit(MAGIC_NUMBER_RECORD, 20),
     FlipBit(MAGIC_NUMBER_RECORD, 63)}

RawHeaders ==
    {PlainHeader(rt) : rt \in Tags \ {0, 4}}
    \cup NearMagicHeaders
    \cup {MetadataHeader(sub) : sub \in Tags}
    \cup {MAGIC_NUMBER_RECORD}
    \cup {EventHeader(sub, 0, 1, 32768 + 2, 3) : sub \in Tags}
    \cup {EventHeader(sub, 1, 1, 2, 3) : sub \in Tags}
    \cup {EventHeader(0, 15, 0, 2, 32768 + 32767)}
    \cup {ArgumentHeader(t, 1, 32768 + 3) : t \in Tags}

RawPayloadWords ==
    { Zeros(8),
      <<97, 98, 99, 100, 101, 102, 103, 104>>,
      <<255, 255, 255, 255, 255, 255, 255, 255>> }

RawCuts == {0, 3}

RECURSIVE Flatten(_)
Flatten(words) ==
    IF words = <<>> THEN <<>> ELSE Head(words) \o Flatten(Tail(words))

RawStream(header, payload, cut) ==
    LET b == to_le_bytes(header) \o Flatten(payload)
    IN SubSeq(b, 1, Len(b) - cut)

(***************************************************************************)
(* Streams of another producer of the format: every size field counts the  *)
(* words of its record or argument, reserved bits are 0, padding is 0      *)
(***************************************************************************)
EventHeaderOfSize(size, sub, nargs, thread, category, name) ==
    Pack(0, << <<4, 4>>, <<12, size>>, <<4, sub>>, <<4, nargs>>, <<8, thread>>,
               <<16, category>>, <<16, name>> >>)

ArgumentHeaderOfSize(size, t, name, data) ==
    Pack(0, << <<4, t>>, <<12, size>>, <<16, name>>, <<16, data>> >>)

\* Instant, references 1/2/3, one Str argument named by reference 5 whose
\* value is the empty inline string
F_empty_value ==
    Flatten(<< to_le_bytes(EventHeaderOfSize(3, 0, 1, 1, 2, 3)),
               to_le_bytes(AsU64(1)),
               to_le_bytes(ArgumentHeaderOfSize(1, 6, 5, 32768)) >>)

\* the same with the 9-byte inline value "operation"
F_long_value ==
    Flatten(<< to_le_bytes(EventHeaderOfSize(5, 0, 1, 1, 2, 3)),
               to_le_bytes(AsU64(1)),
               to_le_bytes(ArgumentHeaderOfSize(3, 6, 5, 32768 + 9)),
               pad_and_write_string(S_operation) >>)

\* Counter, references 1/2/3, one UInt64 argument, counter id 9
F_counter ==
    Flatten(<< to_le_bytes(EventHeaderOfSize(5, 1, 1, 1, 2, 3)),
               to_le_bytes(AsU64(1)),
               to_le_bytes(ArgumentHeaderOfSize(2, 4, 7, 0)),
               to_le_bytes(AsU64(67890)),
               to_le_bytes(AsU64(9)) >>)

\* String record 1 = "cat", then a Thread record 1
F_string_thread ==
    Flatten(<< to_le_bytes(Pack(0, << <<4, 2>>, <<12, 2>>, <<15, 1>>, <<1, 0>>,
                                      <<15, 3>> >>)),
               pad_and_write_string(S_cat),
               to_le_bytes(Pack(0, << <<4, 3>>, <<12, 3>>, <<8, 1>> >>)),
               to_le_bytes(AsU64(4660)),
               to_le_bytes(AsU64(22136)) >>)

ForeignStreams == {F_empty_value, F_long_value, F_counter, F_string_thread}

(***************************************************************************)
(* Arguments of the functions that do no I/O                               *)
(***************************************************************************)
HeaderTypes == {"Metadata", "String", "Event", "LargeBlob"}

\* record sizes in words, up to the largest a 12-bit size field holds
HeaderSizes == {0, 2, 255, 256, 4095}

HeaderFields ==
    { <<>>,
      <<CustomField(8, AsU64(511))>>,
      <<CustomField(15, AsU64(1)), CustomField(1, AsU64(0)), CustomField(15, AsU64(3))>>,
      <<CustomField(4, AsU64(15)), CustomField(4, AsU64(0)), CustomField(8, AsU64(255)),
        CustomField(16, AsU64(65535)), CustomField(16, AsU64(1))>>,
      <<CustomField(40, AsU64(1)), CustomField(16, AsU64(65535))>>,
      <<CustomField(48, AsU64(5)), CustomField(8, AsU64(255))>>,
      <<CustomField(64, AsU64(7))>> }

\* a string of n bytes 'a'
Repeated(n) == [k \in 1..n |-> 97]

StringRefInputs ==
    { Inline(<<>>), Inline(S_cat), Inline(Repeated(8)), Inline(S_operation),
      Inline(S_utf8), Ref(0), Ref(2), Ref(32767) }

\* inline strings of 255, 256 and 4096 words
LongStringRefs ==
    { Inline(Repeated(2040)), Inline(Repeated(2048)), Inline(Repeated(32767)) }

ArgumentInputs ==
    { A_null, A_int32, A_uint32, A_int64, A_uint64, A_uint64_ref, A_float,
      A_str_refs, A_str_inline, A_str_empty, A_str_long, A_pointer, A_koid,
      A_true, A_false }

\* an inline category of 255 words, one of 4096 words, and 15 arguments
E_long_category ==
    create_instant_event(AsU64(1), Ref(1), Inline(Repeated(2040)), Ref(3), <<>>)

E_longest_name ==
    create_duration_begin_event(AsU64(2), T_inline, Ref(32767),
                                Inline(Repeated(32767)), <<A_str_long>>)

E_15_arguments ==
    create_duration_end_event(AsU64(3), Ref(255), Inline(S_cat), Ref(1),
        <<A_null, A_int32, A_uint32, A_int64, A_uint64, A_float, A_str_refs,
          A_str_inline, A_str_empty, A_str_long, A_pointer, A_koid, A_true,
          A_false, A_uint64_ref>>)

\* DurationComplete events of references with one 64-bit argument
E_complete_float ==
    create_duration_complete_event(AsU64(7), Ref(255), Ref(32767), Ref(1),
                                   <<A_float>>, AsU64(8))

E_complete_koid ==
    create_duration_complete_event(U64Max, Ref(2), Ref(0), Ref(32767),
                                   <<A_koid>>, Zero64)

RoundTripEvents ==
    EventInputs \cup {E_long_category, E_longest_name, E_15_arguments,
                      E_complete_float, E_complete_koid}

PadStrings ==
    { <<>>, S_cat, S_debug, S_utf8, S_category, S_operation,
      Repeated(7), Repeated(15), Repeated(16) }

\* String records with values of 0 to 4096 words, the last of 32767 bytes
StringRecordIndices == {0, 1, 32767, 32769, 65535}

StringRecordLengths == {0, 3, 8, 2032, 2040, 32767}

StringRecordInputs ==
    { create_string(i, Repeated(n)) : i \in StringRecordIndices, n \in StringRecordLengths }

\* the records Record::write has an encoder for
WritableInputs == MetadataInputs \cup InternInputs \cup EventInputs

\* string and thread references on both sides of the width of their fields
StringRefPairInputs ==
    { Inline(<<>>), Inline(S_cat), Inline(S_debug), Inline(S_operation),
      Ref(0), Ref(1), Ref(3), Ref(32767), Ref(32768), Ref(32771), Ref(65535) }

ThreadRefPairInputs ==
    { T_inline, InlineThread(Zero64, Zero64), Ref(0), Ref(1), Ref(5), Ref(255) }

\* the word v with the 12-bit value size in bits 4-15
WithSize(v, size) ==
    [i \in 0..63 |-> IF i >= 4 /\ i <= 15 THEN (size \div Pow2(i - 4)) % 2 ELSE v[i]]

\* the stream with bits 4-15 of its k-th word (from 0) set to size
WithSizeAt(stream, k, size) ==
    [j \in 1..Len(stream) |->
        IF j > 8 * k /\ j <= 8 * k + 8
        THEN to_le_bytes(WithSize(from_le_bytes(SubSeq(stream, 8 * k + 1, 8 * k + 8)), size))[j - 8 * k]
        ELSE stream[j]]

\* values given to a size field
TwinSizes == {0, 1, 2, 3, 4095}

\* streams and the word of each that is a record header (word 0) or the
\* header of the first argument of an event without inline parts (word 2)
TwinSources ==
    { <<to_le_bytes(h) \o S_operation \o Zeros(7), 0>> : h \in RawHeaders }
    \cup { <<Record_write(r).bytes, 0>> : r \in WritableInputs }
    \cup { <<f, 0>> : f \in ForeignStreams }
    \cup { <<f, 2>> : f \in {F_empty_value, F_long_value, F_counter} }
    \cup { <<Record_write(r).bytes, 2>> :
              r \in { create_instant_event(AsU64(1), Ref(1), Ref(2), Ref(3), <<a>>) :
                         a \in ArgumentInputs } }

\* values of the bytes between the end of a string and the next word
PadFills == {0, 97, 255}

\* a stream in which the string s sits in whole words, the rest of its last
\* word filled with the byte `fill`, followed by one more word
FilledStream(s, fill) ==
    s \o [k \in 1..((8 - (Len(s) % 8)) % 8) |-> fill] \o <<1, 2, 3, 4, 5, 6, 7, 8>>

RECURSIVE SumWidths(_)
SumWidths(fields) ==
    IF fields = <<>> THEN 0 ELSE Head(fields).width + SumWidths(Tail(fields))

(***************************************************************************)
(* The state machine                                                       *)
(***************************************************************************)
NoResult == Fail(Err("none", 0), 0)

Hosts == {"le", "be"}

InitOn(h) ==
    /\ host = h
    /\ archive = <<>>
    /\ appended = <<>>
    /\ sink = <<>>
    /\ sink_before = <<>>
    /\ nwrites = 0
    /\ wresult = Written(<<>>)
    /\ source = <<>>
    /\ origin = "none"
    /\ rresult = NoResult
    /\ op = "init"
    /\ call = <<>>
    /\ ret = <<>>

\* the crate built for a little-endian target (x86-64, aarch64)
Init == InitOn("le")

\* the crate built for either byte order
InitAnyHost == \E h \in Hosts : InitOn(h)

Writing == op \in {"init", "Archive::write", "Record::write"}

WriteInputs == IF nwrites = 0 THEN Archives ELSE AppendArchives

RecordWriteInputs == IF nwrites = 0 THEN RecordInputs ELSE AppendRecords

\* archive.write(&mut sink)
ArchiveWrite(records) ==
    /\ Writing
    /\ nwrites < MaxWrites
    /\ wresult' = Archive_write(records)
    /\ sink' = sink \o wresult'.bytes
    /\ archive' = records
    /\ appended' = appended \o records
    /\ sink_before' = sink
    /\ nwrites' = nwrites + 1
    /\ op' = "Archive::write"
    /\ UNCHANGED <<call, ret, host, source, origin, rresult>>

\* record.write(&mut sink)
RecordWrite(r) ==
    /\ Writing
    /\ nwrites < MaxWrites
    /\ wresult' = Record_write(r)
    /\ sink' = sink \o wresult'.bytes
    /\ archive' = <<r>>
    /\ appended' = Append(appended, r)
    /\ sink_before' = sink
    /\ nwrites' = nwrites + 1
    /\ op' = "Record::write"
    /\ UNCHANGED <<call, ret, host, source, origin, rresult>>

\* Cursor::new over what was written, or over all but its last `cut` bytes
OpenSink(cut) ==
    /\ Writing
    /\ cut <= Len(sink)
    /\ cut = 0 \/ nwrites = 1
    /\ source' = SubSeq(sink, 1, Len(sink) - cut)
    /\ origin' = "sink"
    /\ op' = "open"
    /\ UNCHANGED <<call, ret, host, archive, appended, sink, sink_before, nwrites, wresult, rresult>>

\* Cursor::new over bytes that no writer of this crate produced
OpenRaw(header, payload, cut) ==
    /\ op = "init"
    /\ source' = RawStream(header, payload, cut)
    /\ origin' = "raw"
    /\ op' = "open"
    /\ UNCHANGED <<call, ret, host, archive, appended, sink, sink_before, nwrites, wresult, rresult>>

\* Cursor::new over a stream another producer wrote
OpenForeign(stream) ==
    /\ op = "init"
    /\ source' = stream
    /\ origin' = "foreign"
    /\ op' = "open"
    /\ UNCHANGED <<call, ret, host, archive, appended, sink, sink_before, nwrites, wresult, rresult>>

\* Archive::read(cursor)
ArchiveRead ==
    /\ op = "open"
    /\ rresult' = Archive_read(source)
    /\ op' = "Archive::read"
    /\ UNCHANGED <<call, ret, host, archive, appended, sink, sink_before, nwrites, wresult, source, origin>>

\* Record::read(&mut cursor)
RecordRead ==
    /\ op = "open"
    /\ rresult' = Record_read(source, 0)
    /\ op' = "Record::read"
    /\ UNCHANGED <<call, ret, host, archive, appended, sink, sink_before, nwrites, wresult, source, origin>>

\* Argument::read(&mut cursor)
ArgumentRead ==
    /\ op = "open"
    /\ origin = "raw"
    /\ rresult' = Argument_read(source, 0)
    /\ op' = "Argument::read"
    /\ UNCHANGED <<call, ret, host, archive, appended, sink, sink_before, nwrites, wresult, source, origin>>

\* RecordHeader::build(record_type, record_size as u8, &fields), as the
\* writers call it with a word count
RecordHeaderBuild(record_type, record_size, fields) ==
    /\ op = "init"
    /\ call' = [record_type |-> record_type, record_size |-> record_size, fields |-> fields]
    /\ ret' \in RecordHeader_build_results(record_type, record_size % 256, fields)
    /\ op' = "RecordHeader::build"
    /\ UNCHANGED <<host, archive, appended, sink, sink_before, nwrites, wresult, source, origin, rresult>>

\* x.to_field(), x.encoding_num_words(), the payload the event writer emits
\* for x, and the StringRef the event reader makes of field and payload
StringRefCodec(x) ==
    /\ op = "init"
    /\ call' = x
    /\ ret' = [field |-> StringRef_to_field(x),
               payload |-> IF x.inline THEN pad_and_write_string(x.s) ELSE <<>>,
               decoded |-> ReadStringRef(
                              IF x.inline THEN pad_and_write_string(x.s) ELSE <<>>,
                              0, StringRef_to_field(x))]
    /\ op' = "StringRef::to_field"
    /\ UNCHANGED <<host, archive, appended, sink, sink_before, nwrites, wresult, source, origin, rresult>>

\* x.encoding_num_words() and x.to_field()
StringRefEncodingNumWords(x) ==
    /\ op = "init"
    /\ call' = x
    /\ ret' = [field |-> StringRef_to_field(x),
               num_words |-> StringRef_encoding_num_words(x)]
    /\ op' = "StringRef::encoding_num_words"
    /\ UNCHANGED <<host, archive, appended, sink, sink_before, nwrites, wresult, source, origin, rresult>>

\* argument.write(&mut Vec::new())
ArgumentWrite(a) ==
    /\ op = "init"
    /\ call' = a
    /\ ret' = Argument_write(a)
    /\ op' = "Argument::write"
    /\ UNCHANGED <<host, archive, appended, sink, sink_before, nwrites, wresult, source, origin, rresult>>

\* record.write(&mut buffer) of an event, then Record::read over the buffer
EventRoundTrip(e) ==
    /\ op = "init"
    /\ call' = e
    /\ \E w \in EventRecord_write_results(e) :
          ret' = [written |-> w,
                  read |-> IF w.ok THEN Record_read(w.bytes, 0) ELSE NoResult]
    /\ op' = "EventRecord::write"
    /\ UNCHANGED <<host, archive, appended, sink, sink_before, nwrites, wresult, source, origin, rresult>>

\* pad_and_write_string(&mut buffer, s), pad_to_multiple_of_8(s.as_bytes())
\* and read_aligned_str(&mut cursor, s.len()) over a stream that holds s
StringPadding(s, fill) ==
    /\ op = "init"
    /\ call' = [s |-> s, fill |-> fill]
    /\ ret' = [written |-> pad_and_write_string(s),
               padded |-> pad_to_multiple_of_8(s),
               read |-> read_aligned_str(FilledStream(s, fill), 0, Len(s))]
    /\ op' = "pad_and_write_string"
    /\ UNCHANGED <<host, archive, appended, sink, sink_before, nwrites, wresult, source, origin, rresult>>

\* StringRecord::write(&self, &mut buffer) on an empty buffer
StringRecordWrite(r) ==
    /\ op = "init"
    /\ call' = r
    /\ ret' = StringRecord_write(r)
    /\ op' = "StringRecord::write"
    /\ UNCHANGED <<host, archive, appended, sink, sink_before, nwrites, wresult, source, origin, rresult>>

\* a.write(&mut buffer_a) and b.write(&mut buffer_b) for two different records
RecordWritePair(a, b) ==
    /\ op = "init"
    /\ a # b
    /\ call' = <<a, b>>
    /\ ret' = <<Record_write(a), Record_write(b)>>
    /\ op' = "Record::write pair"
    /\ UNCHANGED <<host, archive, appended, sink, sink_before, nwrites, wresult, source, origin, rresult>>

\* x.to_field() and y.to_field() for two different string references
StringRefFieldPair(x, y) ==
    /\ op = "init"
    /\ x # y
    /\ call' = <<x, y>>
    /\ ret' = <<StringRef_to_field(x), StringRef_to_field(y)>>
    /\ op' = "StringRef::to_field pair"
    /\ UNCHANGED <<host, archive, appended, sink, sink_before, nwrites, wresult, source, origin, rresult>>

\* x.to_field() and y.to_field() for two different thread references
ThreadRefFieldPair(x, y) ==
    /\ op = "init"
    /\ x # y
    /\ call' = <<x, y>>
    /\ ret' = <<ThreadRef_to_field(x), ThreadRef_to_field(y)>>
    /\ op' = "ThreadRef::to_field pair"
    /\ UNCHANGED <<host, archive, appended, sink, sink_before, nwrites, wresult, source, origin, rresult>>

\* Record::read over a stream and over the same stream with another value in
\* the size field of one of its headers
SizeTwinsRead(stream, k, size) ==
    /\ op = "init"
    /\ WithSizeAt(stream, k, size) # stream
    /\ call' = [stream |-> stream, twin |-> WithSizeAt(stream, k, size), word |-> k]
    /\ ret' = [first |-> Record_read(stream, 0),
               twin |-> Record_read(WithSizeAt(stream, k, size), 0)]
    /\ op' = "Record::read twins"
    /\ UNCHANGED <<host, archive, appended, sink, sink_before, nwrites, wresult, source, origin, rresult>>

Next ==
    \/ \E records \in WriteInputs : ArchiveWrite(records)
    \/ \E r \in RecordWriteInputs : RecordWrite(r)
    \/ \E cut \in 0..MaxCut : OpenSink(cut)
    \/ \E header \in RawHeaders, cut \in RawCuts :
          \E payload \in SeqsUpTo(RawPayloadWords, MaxPayloadWords) :
             OpenRaw(header, payload, cut)
    \/ \E stream \in ForeignStreams : OpenForeign(stream)
    \/ ArchiveRead
    \/ RecordRead
    \/ ArgumentRead
    \/ \E record_type \in HeaderTypes, record_size \in HeaderSizes, fields \in HeaderFields :
          RecordHeaderBuild(record_type, record_size, fields)
    \/ \E x \in StringRefInputs \cup LongStringRefs : StringRefCodec(x)
    \/ \E a \in ArgumentInputs : ArgumentWrite(a)
    \/ \E e \in RoundTripEvents : EventRoundTrip(e)
    \/ \E s \in PadStrings, fill \in PadFills : StringPadding(s, fill)
    \/ \E x \in StringRefInputs \cup LongStringRefs : StringRefEncodingNumWords(x)
    \/ \E r \in StringRecordInputs : StringRecordWrite(r)
    \/ /\ op = "init"
       /\ \E a \in WritableInputs, b \in WritableInputs : RecordWritePair(a, b)
    \/ /\ op = "init"
       /\ \E x \in StringRefPairInputs, y \in StringRefPairInputs : StringRefFieldPair(x, y)
    \/ /\ op = "init"
       /\ \E x \in ThreadRefPairInputs, y \in ThreadRefPairInputs : ThreadRefFieldPair(x, y)
    \/ /\ op = "init"
       /\ \E t \in TwinSources, size \in TwinSizes : SizeTwinsRead(t[1], t[2], size)

Spec == Init /\ [][Next]_vars

SpecAnyHost == InitAnyHost /\ [][Next]_vars

(***************************************************************************)
(* Vocabulary of the properties                                            *)
(***************************************************************************)
\* a record one of the public constructors returns
Constructable(r) ==
    /\ r.kind \notin UnsupportedKinds
    /\ r.kind = "Event" => r.event_type \notin AsyncFlowTypes

\* a variant Record::write has no encoder for
Unwritable(r) ==
    \/ r.kind \in UnsupportedKinds
    \/ r.kind = "Event" /\ r.event_type \in AsyncFlowTypes

\* the source is everything that one writer call put into an empty sink
WholeSinkOfOneWrite == origin = "sink" /\ source = sink /\ nwrites = 1

\* the k-th 64-bit word of a byte sequence, least significant byte first
WordAt(bytes, k) == from_le_bytes(SubSeq(bytes, 8 * k - 7, 8 * k))

\* wire fields of the record that starts the source
WireRecordType(src) == src[1] % 16

WireSubtype(src) == src[3] % 16

\* position at which the first failing Record::read of the source starts
RECURSIVE Boundary(_, _)
Boundary(src, pos) ==
    LET r == Record_read(src, pos)
    IN IF r.ok THEN Boundary(src, r.pos) ELSE pos

\* number of records decoded before the first failing Record::read
RECURSIVE CompleteRecords(_, _)
CompleteRecords(src, pos) ==
    LET r == Record_read(src, pos)
    IN IF r.ok THEN 1 + CompleteRecords(src, r.pos) ELSE 0

\* start of the i-th record of the source
RECURSIVE NthStart(_, _, _)
NthStart(src, pos, i) ==
    IF i = 1 THEN pos ELSE NthStart(src, Record_read(src, pos).pos, i - 1)

\* the source ends after a header word was read and before its record is complete
EofMidRecord(src) ==
    LET p == Boundary(src, 0)
    IN /\ Len(src) - p >= 8
       /\ Record_read(src, p).err = UnexpectedEof

\* the source ends exactly where the next header word would start
EofAtBoundary(src) == Boundary(src, 0) = Len(src)

RECURSIVE Encodings(_, _)
Encodings(records, n) ==
    IF n = 0 THEN <<>>
    ELSE Encodings(records, n - 1) \o Record_write(records[n]).bytes

HasUnwritable(records) == \E i \in 1..Len(records) : Unwritable(records[i])

FirstUnwritable(records) ==
    CHOOSE i \in 1..Len(records) :
        /\ Unwritable(records[i])
        /\ \A j \in 1..(i - 1) : ~Unwritable(records[j])

(***************************************************************************)
(* Properties                                                              *)
(***************************************************************************)
\* C1: a constructable record written alone to an empty sink is read back by
\* Archive::read as exactly the one-element list holding that record.
C1_RoundTripsEveryConstructable ==
    (op = "Archive::read" /\ WholeSinkOfOneWrite /\ Len(archive) = 1
        /\ Constructable(archive[1]))
    => (rresult.ok /\ rresult.val = archive)

\* C2: the bytes Record::write appends for a record are 8 times the size
\* stored in bits 4-15 of the header word it wrote.
C2_SizeFieldIsByteLength ==
    (op = "Record::write" /\ wresult.ok)
    => Len(sink) - Len(sink_before) = 8 * RecordHeader_size(WordAt(wresult.bytes, 1))

\* C3: Archive::read returns an error, not Ok, when the source ends after a
\* record's header word was read and before that record is complete.
C3_EofMidRecordIsError ==
    (op = "Archive::read" /\ EofMidRecord(source)) => ~rresult.ok

\* what Archive::read does instead: when the source ends after a record's
\* header word and before the end of that record, it returns Ok with the
\* records decoded before the truncated one.
C3_EofMidRecordEndsArchive ==
    (op = "Archive::read" /\ EofMidRecord(source))
    => /\ rresult.ok
       /\ Len(rresult.val) = CompleteRecords(source, 0)

C3_Witness ==
    /\ op = "Archive::read"
    /\ EofMidRecord(source)
    /\ rresult.ok
    /\ Len(rresult.val) >= 1

\* C4: when the source ends exactly at a record boundary Archive::read returns
\* Ok with every decoded record in stream order; a 0-byte source gives the
\* empty list, and writing an archive without records writes no byte.
C4_EofAtBoundaryEndsArchive ==
    /\ (op = "Archive::read" /\ EofAtBoundary(source))
       => /\ rresult.ok
          /\ Len(rresult.val) = CompleteRecords(source, 0)
          /\ \A i \in 1..Len(rresult.val) :
                rresult.val[i] = Record_read(source, NthStart(source, 0, i)).val
    /\ (op = "Archive::read" /\ source = <<>>)
       => (rresult.ok /\ rresult.val = <<>>)
    /\ (op = "Archive::write" /\ archive = <<>>)
       => (wresult.ok /\ sink = sink_before)

C4_Witness ==
    /\ op = "Archive::read"
    /\ EofAtBoundary(source)
    /\ rresult.ok
    /\ Len(rresult.val) >= 2

\* C5: when Archive::write meets its first unwritable record it returns the
\* error, and the sink has gained exactly the encodings of the records before
\* it, in order, and nothing of that record or of the later ones.
C5_WriteStopsAtFirstUnwritable ==
    (op = "Archive::write" /\ HasUnwritable(archive))
    => LET i == FirstUnwritable(archive)
       IN /\ ~wresult.ok
          /\ wresult.err = Unimplemented
          /\ sink = sink_before \o Encodings(archive, i - 1)

C5_Witness ==
    /\ op = "Archive::write"
    /\ HasUnwritable(archive)
    /\ FirstUnwritable(archive) >= 2
    /\ FirstUnwritable(archive) < Len(archive)
    /\ ~wresult.ok
    /\ Len(sink) > Len(sink_before)

\* C6: Record::read of a stream whose header has record type 5, 6, 7, 8, 9 or
\* 15 returns UnsupportedRecordType carrying that type after consuming the 8
\* header bytes only; Record::write of Blob, Userspace, Kernel, Scheduling, Log
\* or LargeBlob returns Unimplemented and writes nothing.
C6_UnsupportedRecordTypes ==
    /\ (op = "Record::read" /\ Len(source) >= 8
           /\ WireRecordType(source) \in {5, 6, 7, 8, 9, 15})
       => /\ ~rresult.ok
          /\ rresult.err = Err("UnsupportedRecordType", WireRecordType(source))
          /\ rresult.pos = 8
    /\ (op = "Record::write" /\ archive[1].kind \in UnsupportedKinds)
       => /\ ~wresult.ok
          /\ wresult.err = Unimplemented
          /\ sink = sink_before

C6_Witness ==
    /\ op = "Record::read"
    /\ Len(source) > 8
    /\ WireRecordType(source) = 15
    /\ ~rresult.ok
    /\ rresult.pos = 8

\* the source with the event subtype of its first header replaced by t
Retag(src, t) == [src EXCEPT ![3] = (src[3] \div 16) * 16 + t]

IsAsyncFlowHeader(src) ==
    /\ Len(src) >= 8
    /\ WireRecordType(src) = 4
    /\ WireSubtype(src) \in 5..10

AsyncFlowWriteFails ==
    (op = "Record::write" /\ archive[1].kind = "Event"
        /\ archive[1].event_type \in AsyncFlowTypes)
    => /\ ~wresult.ok
       /\ wresult.err = Unimplemented
       /\ sink = sink_before

\* C7 (as stated): parsing an event whose subtype is 5..10 returns
\* Unimplemented, writing an async/flow event returns Unimplemented and
\* writes nothing, and neither panics.
C7_AsyncFlowIsUnimplemented ==
    /\ (op = "Record::read" /\ IsAsyncFlowHeader(source))
       => (~rresult.ok /\ rresult.err = Unimplemented)
    /\ AsyncFlowWriteFails

\* C7 (amended): parsing an event whose subtype is 5..10 first reads the
\* timestamp, thread, category, name and arguments that follow the header as
\* for an Instant event; if one of those reads fails, that read's typed error
\* is returned, otherwise Unimplemented.  Writing an async/flow event returns
\* Unimplemented and writes nothing.  Neither path panics.
C7_AsyncFlowParsedThenUnimplemented ==
    /\ (op = "Record::read" /\ IsAsyncFlowHeader(source))
       => LET instant == Record_read(Retag(source, 0), 0)
          IN /\ ~rresult.ok
             /\ rresult.err.kind # "panic"
             /\ instant.ok => rresult.err = Unimplemented
             /\ ~instant.ok => rresult.err = instant.err
    /\ AsyncFlowWriteFails

C7_Witness ==
    /\ op = "Record::read"
    /\ IsAsyncFlowHeader(source)
    /\ Len(source) > 16
    /\ rresult.err = Unimplemented

\* C8: a tag outside its recognised set gives the matching typed error
\* carrying the raw tag: record type 10..14 InvalidRecordType, event subtype
\* 11..15 InvalidEventType, metadata subtype 0 or 5..15 InvalidMetadataType,
\* argument type 10..15 InvalidArgumentType.
C8_InvalidTagsAreTypedErrors ==
    /\ (op = "Record::read" /\ Len(source) >= 8
           /\ WireRecordType(source) \in 10..14)
       => rresult = Fail(Err("InvalidRecordType", WireRecordType(source)), 8)
    /\ (op = "Record::read" /\ Len(source) >= 8 /\ WireRecordType(source) = 4
           /\ WireSubtype(source) \in 11..15)
       => rresult = Fail(Err("InvalidEventType", WireSubtype(source)), 8)
    /\ (op = "Record::read" /\ Len(source) >= 8 /\ WireRecordType(source) = 0
           /\ WireSubtype(source) \in {0} \cup (5..15))
       => rresult = Fail(Err("InvalidMetadataType", WireSubtype(source)), 8)
    /\ (op = "Argument::read" /\ Len(source) >= 8
           /\ WireRecordType(source) \in 10..15)
       => rresult = Fail(Err("InvalidArgumentType", WireRecordType(source)), 8)

C8_Witness ==
    /\ op = "Argument::read"
    /\ Len(source) > 8
    /\ rresult = Fail(Err("InvalidArgumentType", 10), 8)

TypedErrors ==
    {"Io.UnexpectedEof", "Utf8", "InvalidRecordType", "InvalidEventType",
     "InvalidMetadataType", "InvalidArgumentType", "UnsupportedRecordType",
     "Unimplemented"}

Reading == op \in {"Archive::read", "Record::read", "Argument::read"}

\* C9: whatever bytes the source holds, the readers return Ok or a typed
\* error; they never panic.
C9_ReadersNeverPanic ==
    Reading => (rresult.ok \/ rresult.err.kind \in TypedErrors)

C9_Witness ==
    /\ op = "Record::read"
    /\ origin = "raw"
    /\ ~rresult.ok
    /\ rresult.err.kind = "Utf8"

\* an event whose words have fixed places: references only, and one 64-bit
\* argument with a reference name
FixedLayoutEvent(r) ==
    /\ r.kind = "Event"
    /\ r.event_type \in {"Counter", "DurationComplete"}
    /\ ~r.thread.inline /\ ~r.category.inline /\ ~r.name.inline
    /\ Len(r.arguments) = 1
    /\ r.arguments[1].type \in {"Int64", "UInt64", "Float", "Pointer", "KernelObjectId"}
    /\ ~r.arguments[1].name.inline

\* C10: every 64-bit word is written least significant byte first and read
\* least significant byte first on every host, so that what a host wrote it
\* and any other host read back equal.
C10_LittleEndianOnEveryHost ==
    /\ (op = "Record::write" /\ archive[1].kind = "Thread")
       => /\ AsNat(extract_bits(WordAt(wresult.bytes, 1), 0, 3), 4) = 3
          /\ WordAt(wresult.bytes, 2) = archive[1].process_koid
          /\ WordAt(wresult.bytes, 3) = archive[1].thread_koid
    /\ (op = "Record::write" /\ FixedLayoutEvent(archive[1]))
       => /\ AsNat(extract_bits(WordAt(wresult.bytes, 1), 0, 3), 4) = 4
          /\ WordAt(wresult.bytes, 2) = archive[1].timestamp
          /\ AsNat(extract_bits(WordAt(wresult.bytes, 3), 0, 3), 4)
                = ArgumentTypeTag(archive[1].arguments[1].type)
          /\ WordAt(wresult.bytes, 4) = archive[1].arguments[1].value
          /\ WordAt(wresult.bytes, 5)
                = (IF archive[1].event_type = "Counter"
                   THEN archive[1].counter_id ELSE archive[1].end_ts)
    /\ (op = "Record::read" /\ WholeSinkOfOneWrite /\ Len(archive) = 1
           /\ (archive[1].kind \in {"Thread", "Initialization"}
               \/ FixedLayoutEvent(archive[1])))
       => (rresult.ok /\ rresult.val = archive[1])

\* C11: when Archive::read parses a stream and consumes all of it, writing
\* the archive it returned gives a stream of the same length in which every
\* record's header word, size field and reserved bits included, is the one
\* of the stream read (bytes may differ only in the padding of inline
\* strings, and a header word holds no padding).
C11_ReadThenWriteKeepsHeaders ==
    (op = "Archive::read" /\ rresult.ok /\ source # <<>> /\ EofAtBoundary(source))
    => /\ Archive_write(rresult.val).ok
       /\ Len(Archive_write(rresult.val).bytes) = Len(source)
       /\ \A i \in 1..Len(rresult.val) :
             SubSeq(Archive_write(rresult.val).bytes,
                    NthStart(source, 0, i) + 1, NthStart(source, 0, i) + 8)
             = SubSeq(source, NthStart(source, 0, i) + 1, NthStart(source, 0, i) + 8)

\* C12: RecordHeader::build returns the error HeaderFieldOverflow whenever
\* 16 plus the sum of the field widths is more than 64.
C12_OverflowingFieldsAreRejected ==
    (op = "RecordHeader::build" /\ 4 + 12 + SumWidths(call.fields) > 64)
    => (~ret.ok /\ ret.err.kind = "HeaderFieldOverflow")

RECURSIVE FieldsAt(_, _, _)
FieldsAt(h, offset, fields) ==
    \/ fields = <<>>
    \/ /\ BitsToNat(h, offset, Head(fields).width)
          = BitsToNat(Head(fields).value, 0, Head(fields).width)
       /\ FieldsAt(h, offset + Head(fields).width, Tail(fields))

\* C13: for every record type T, every size S of at most 12 bits and every
\* field list whose widths sum to at most 48, RecordHeader::build gives a
\* header whose record_type() is T, whose size() is S, and in which field i
\* sits at offset 16 + (widths before it) holding value_i mod 2^width_i,
\* so that no field overlaps another.
C13_BuildLaysOutEveryField ==
    (op = "RecordHeader::build" /\ SumWidths(call.fields) <= 48)
    => /\ ret.ok
       /\ RecordHeader_record_type(ret.val) = Ok(call.record_type, 0)
       /\ RecordHeader_size(ret.val) = call.record_size
       /\ FieldsAt(ret.val, 4 + 12, call.fields)

\* The layout of C13 for the sizes a u8 carries: type, size and every field
\* are where the format puts them when record_size is at most 255.
C13_BuildLaysOutEveryFieldOfSmallRecords ==
    (op = "RecordHeader::build" /\ SumWidths(call.fields) <= 48 /\ call.record_size < 256)
    => /\ ret.ok
       /\ RecordHeader_record_type(ret.val) = Ok(call.record_type, 0)
       /\ RecordHeader_size(ret.val) = call.record_size
       /\ FieldsAt(ret.val, 4 + 12, call.fields)

\* C14: for every StringRef x, Inline of 0..32767 bytes or Ref of an index
\* 0..32767, decoding the field of to_field (with the padded payload when
\* inline) gives x back, bit 15 of the field is set exactly when x is
\* Inline, and the payload word count reported for x is ceil(len/8) for
\* Inline and 0 for Ref.
C14_StringRefFieldAndWordCount ==
    /\ (op = "StringRef::to_field")
       => /\ ret.decoded.ok /\ ret.decoded.val = call
          /\ ((ret.field \div 32768) % 2 = 1) <=> call.inline
          /\ Len(ret.payload) = 8 * (IF call.inline THEN DivCeil(Len(call.s), 8) ELSE 0)
    /\ (op = "StringRef::encoding_num_words")
       => /\ ((ret.field \div 32768) % 2 = 1) <=> call.inline
          /\ ret.num_words = (IF call.inline THEN DivCeil(Len(call.s), 8) ELSE 0)

\* The part of C14 that holds: field, high bit, payload and decoding for
\* every string tried, and the word count of strings of at most 255 words.
C14_StringRefFieldDecodes ==
    /\ (op = "StringRef::to_field")
       => /\ ret.decoded.ok /\ ret.decoded.val = call
          /\ ((ret.field \div 32768) % 2 = 1) <=> call.inline
          /\ Len(ret.payload) = 8 * (IF call.inline THEN DivCeil(Len(call.s), 8) ELSE 0)
    /\ (op = "StringRef::encoding_num_words")
       => /\ ((ret.field \div 32768) % 2 = 1) <=> call.inline
          /\ (call.inline /\ Len(call.s) <= 2040)
             => ret.num_words = DivCeil(Len(call.s), 8)
          /\ ~call.inline => ret.num_words = 0

\* the reader's event r has the arms of the writer's event w
SameArms(w, r) ==
    /\ r.kind = "Event"
    /\ r.thread.inline = w.thread.inline
    /\ r.category.inline = w.category.inline
    /\ r.name.inline = w.name.inline
    /\ Len(r.arguments) = Len(w.arguments)
    /\ \A i \in 1..Len(w.arguments) :
          /\ r.arguments[i].type = w.arguments[i].type
          /\ r.arguments[i].name.inline = w.arguments[i].name.inline
          /\ w.arguments[i].type = "Str"
             => r.arguments[i].str.inline = w.arguments[i].str.inline

\* C15: for every event record the writer emits, the reader takes the inline
\* or the reference arm of the thread, the category, the name, every
\* argument name and every string value exactly as the writer did.
C15_ReaderTakesTheWritersArms ==
    (op = "Record::read" /\ WholeSinkOfOneWrite /\ Len(archive) = 1
        /\ archive[1].kind = "Event" /\ wresult.ok)
    => (rresult.ok /\ SameArms(archive[1], rresult.val))

\* words a string reference adds after the word that holds its field
InlineWords(x) == IF x.inline THEN DivCeil(Len(x.s), 8) ELSE 0

\* words an argument's value adds after its header and name
ValueExtras(a) ==
    CASE a.type \in {"Null", "Int32", "UInt32", "Boolean"} -> 0
      [] a.type \in {"Int64", "UInt64", "Float", "Pointer", "KernelObjectId"} -> 1
      [] a.type = "Str" -> InlineWords(a.str)

\* C16: the size in bits 4-15 of an argument's header is 1 + the inline
\* words of its name + the words of its value (0 for Null, Int32, UInt32 and
\* Boolean, 1 for the 64-bit types, ceil(len/8) for an inline Str value and 0
\* for a Str reference), and it is the number of 8-byte words Argument::write
\* emits for the argument.
C16_ArgumentSizeCountsItsWords ==
    (op = "Argument::write")
    => /\ AsNat(extract_bits(from_ne_bytes(SubSeq(ret, 1, 8)), 4, 15), 12)
          = 1 + InlineWords(call.name) + ValueExtras(call)
       /\ 8 * AsNat(extract_bits(from_ne_bytes(SubSeq(ret, 1, 8)), 4, 15), 12)
          = Len(ret)

\* The arguments for which C16 holds: every argument but the Str arguments
\* whose inline value is not 1 to 8 bytes long.
C16_ArgumentSizeOfOneWordValues ==
    (op = "Argument::write"
        /\ ((call.type = "Str" /\ call.str.inline) => InlineWords(call.str) = 1))
    => /\ AsNat(extract_bits(from_ne_bytes(SubSeq(ret, 1, 8)), 4, 15), 12)
          = 1 + InlineWords(call.name) + ValueExtras(call)
       /\ 8 * AsNat(extract_bits(from_ne_bytes(SubSeq(ret, 1, 8)), 4, 15), 12)
          = Len(ret)

\* a string reference the format can carry
WireStringRef(x) == IF x.inline THEN Len(x.s) <= 32767 ELSE x.r <= 32767

\* the events C17 speaks of
RoundTripDomain(e) ==
    /\ e.event_type \in {"Instant", "Counter", "DurationBegin", "DurationEnd",
                         "DurationComplete"}
    /\ e.thread.inline \/ e.thread.r \in 1..255
    /\ WireStringRef(e.category) /\ WireStringRef(e.name)
    /\ Len(e.arguments) <= 15
    /\ \A i \in 1..Len(e.arguments) :
          /\ WireStringRef(e.arguments[i].name)
          /\ e.arguments[i].type = "Str" => WireStringRef(e.arguments[i].str)

\* C17: an event of one of the five supported subtypes, with an inline
\* thread or a thread reference 1..255, category and name inline (at most
\* 32767 bytes) or references (at most 32767) and 0 to 15 arguments of any
\* of the ten variants, is written by EventRecord::write and read back by
\* Record::read as an equal event.
C17_EventsRoundTrip ==
    (op = "EventRecord::write" /\ RoundTripDomain(call))
    => (ret.written.ok /\ ret.read.ok /\ ret.read.val = call)

\* What holds of C17: whenever the write returns, the event read back is
\* the event written.
C17_EventsRoundTripWhenWritten ==
    (op = "EventRecord::write" /\ RoundTripDomain(call) /\ ret.written.ok)
    => (ret.read.ok /\ ret.read.val = call)

\* the bytes of s followed by the fewest zero bytes that reach a multiple of 8
ZeroPadded(s) == s \o Zeros((8 - (Len(s) % 8)) % 8)

\* an inline string as it must appear in a record; nothing for a reference
PaddedIfInline(x) == IF x.inline THEN ZeroPadded(x.s) ELSE <<>>

\* C18: every inline string (event category and name, argument name and
\* value, String record value, provider name) is written as its bytes
\* followed by the fewest zero bytes, 0 to 7, that reach a multiple of 8;
\* reading it consumes exactly ceil(len/8)*8 bytes and returns the first len
\* bytes, whatever the padding bytes hold.
C18_InlineStringsFillWholeWords ==
    /\ (op = "pad_and_write_string")
       => /\ ret.written = ZeroPadded(call.s)
          /\ ret.padded = ZeroPadded(call.s)
          /\ ret.read.ok
          /\ ret.read.val = call.s
          /\ ret.read.pos = 8 * DivCeil(Len(call.s), 8)
    /\ (op = "Record::write" /\ archive[1].kind = "String")
       => SubSeq(wresult.bytes, 9, Len(wresult.bytes)) = ZeroPadded(archive[1].value)
    /\ (op = "Record::write" /\ archive[1].kind = "ProviderInfo")
       => SubSeq(wresult.bytes, 9, Len(wresult.bytes))
          = ZeroPadded(archive[1].provider_name)
    /\ (op = "Record::write" /\ archive[1].kind = "Event" /\ wresult.ok
           /\ ~archive[1].thread.inline /\ archive[1].arguments = <<>>
           /\ archive[1].event_type \in {"Instant", "DurationBegin", "DurationEnd"})
       => SubSeq(wresult.bytes, 17, Len(wresult.bytes))
          = PaddedIfInline(archive[1].category) \o PaddedIfInline(archive[1].name)
    /\ (op = "Argument::write" /\ call.type = "Str")
       => SubSeq(ret, 9, Len(ret)) = PaddedIfInline(call.name) \o PaddedIfInline(call.str)
    /\ (op = "Argument::write" /\ call.type \in {"Null", "Int32", "UInt32", "Boolean"})
       => SubSeq(ret, 9, Len(ret)) = PaddedIfInline(call.name)

\* a 5-byte string read from a word whose other 3 bytes are 255
C18_Witness ==
    /\ op = "pad_and_write_string"
    /\ call.fill = 255
    /\ Len(call.s) = 5
    /\ ret.read.ok /\ ret.read.val = call.s /\ ret.read.pos = 8
    /\ Len(ret.written) = 8

\* the two koid words of an inline thread; nothing for a reference
KoidWords(t) ==
    IF t.inline THEN to_le_bytes(t.process_koid) \o to_le_bytes(t.thread_koid)
    ELSE <<>>

\* the encodings of the first n arguments, one after the other
RECURSIVE ArgumentWords(_, _)
ArgumentWords(arguments, n) ==
    IF n = 0 THEN <<>>
    ELSE ArgumentWords(arguments, n - 1) \o Argument_write(arguments[n])

\* the word that ends a Counter or a DurationComplete record
TrailingWord(e) ==
    IF e.event_type = "Counter" THEN to_le_bytes(e.counter_id)
    ELSE IF e.event_type = "DurationComplete" THEN to_le_bytes(e.end_ts)
    ELSE <<>>

\* C19: an event is written as header, timestamp, process koid and thread
\* koid (inline thread only), inline category, inline name, the arguments in
\* list order, then counter id (Counter) or end timestamp (DurationComplete)
\* or nothing; EventRecord::parse takes the words in that order, so every
\* value comes back in the field it was written from.
C19_EventWordsInOrder ==
    (op = "EventRecord::write" /\ ret.written.ok)
    => /\ ret.written.bytes
          = SubSeq(ret.written.bytes, 1, 8)
            \o to_le_bytes(call.timestamp)
            \o KoidWords(call.thread)
            \o PaddedIfInline(call.category)
            \o PaddedIfInline(call.name)
            \o ArgumentWords(call.arguments, Len(call.arguments))
            \o TrailingWord(call)
       /\ RoundTripDomain(call)
          => /\ ret.read.ok
             /\ ret.read.pos = Len(ret.written.bytes)
             /\ ret.read.val.timestamp = call.timestamp
             /\ ret.read.val.thread = call.thread
             /\ ret.read.val.category = call.category
             /\ ret.read.val.name = call.name
             /\ ret.read.val.arguments = call.arguments
             /\ TrailingWord(ret.read.val) = TrailingWord(call)

\* a DurationComplete with every optional part: inline thread, inline
\* category and name, two arguments and the end timestamp
C19_Witness ==
    /\ op = "EventRecord::write"
    /\ call.event_type = "DurationComplete"
    /\ call.thread.inline /\ call.category.inline /\ call.name.inline
    /\ Len(call.arguments) = 2
    /\ ret.written.ok /\ ret.read.ok
    /\ ret.read.val.end_ts = call.end_ts
    /\ SubSeq(ret.written.bytes, Len(ret.written.bytes) - 7, Len(ret.written.bytes))
       = to_le_bytes(call.end_ts)

\* a DurationComplete event of references only, with exactly one 64-bit
\* argument whose name is a reference
CompleteWithOneWordArgument(e) ==
    /\ e.event_type = "DurationComplete"
    /\ ~e.thread.inline /\ ~e.category.inline /\ ~e.name.inline
    /\ Len(e.arguments) = 1
    /\ e.arguments[1].type \in {"Int64", "UInt64", "Float", "Pointer", "KernelObjectId"}
    /\ ~e.arguments[1].name.inline

\* C20 (as stated): such an event is written as exactly 32 bytes with the
\* header size field 4.
C20_CompleteEventIs32Bytes ==
    (op = "EventRecord::write" /\ CompleteWithOneWordArgument(call))
    => /\ ret.written.ok
       /\ Len(ret.written.bytes) = 32
       /\ RecordHeader_size(WordAt(ret.written.bytes, 1)) = 4

\* C20 (amended): such an event is written as exactly 40 bytes, the five
\* words header, timestamp, argument header, argument value and end
\* timestamp, with the header size field 5.
C20_CompleteEventIs40Bytes ==
    (op = "EventRecord::write" /\ CompleteWithOneWordArgument(call))
    => /\ ret.written.ok
       /\ Len(ret.written.bytes) = 40
       /\ RecordHeader_size(WordAt(ret.written.bytes, 1)) = 5
       /\ SubSeq(ret.written.bytes, 9, 16) = to_le_bytes(call.timestamp)
       /\ SubSeq(ret.written.bytes, 25, 32) = to_ne_bytes(call.arguments[1].value)
       /\ SubSeq(ret.written.bytes, 33, 40) = to_le_bytes(call.end_ts)

C20_Witness ==
    /\ op = "EventRecord::write"
    /\ CompleteWithOneWordArgument(call)
    /\ call.arguments[1].type = "Float"
    /\ ret.written.ok
    /\ Len(ret.written.bytes) = 40

\* the magic number as it lies in a stream
MagicBytes == <<16, 0, 4, 70, 120, 84, 22, 0>>

\* C21: a MagicNumber record is written as exactly the 8 bytes
\* 10 00 04 46 78 54 16 00, and Record::read returns MagicNumber exactly
\* when the header word is that literal, taking no byte after the header.
C21_MagicNumberIsOneExactWord ==
    /\ (op = "Record::write" /\ archive[1].kind = "MagicNumber")
       => (wresult.ok /\ wresult.bytes = MagicBytes)
    /\ (op = "Record::read" /\ Len(source) >= 8)
       => /\ (rresult.ok /\ rresult.val.kind = "MagicNumber")
             <=> SubSeq(source, 1, 8) = MagicBytes
          /\ SubSeq(source, 1, 8) = MagicBytes => rresult.pos = 8

\* the magic number read from a stream that goes on after it
C21_Witness ==
    /\ op = "Record::read"
    /\ origin = "raw"
    /\ Len(source) > 8
    /\ SubSeq(source, 1, 8) = MagicBytes
    /\ rresult.ok /\ rresult.val.kind = "MagicNumber" /\ rresult.pos = 8

\* a word one bit away from the magic number, read as a TraceInfo record
C21_WitnessNearMagic ==
    /\ op = "Record::read"
    /\ origin = "raw"
    /\ from_le_bytes(SubSeq(source, 1, 8)) = FlipBit(MAGIC_NUMBER_RECORD, 63)
    /\ rresult.ok /\ rresult.val.kind = "TraceInfo"

\* two writer calls were made on the sink and each record has an encoder
TwoWritesOfWritable == nwrites = 2 /\ ~HasUnwritable(appended)

\* the sink after a second write is what one write of both lists gives
C22_AppendedBytesAreOneArchive ==
    (Writing /\ TwoWritesOfWritable)
    => (wresult.ok /\ sink = Archive_write(appended).bytes)

\* C22: writing archive A and then archive B to one sink gives the bytes
\* of writing A.records ++ B.records, and Archive::read of those bytes
\* returns A.records ++ B.records in order.
C22_AppendingIsConcatenation ==
    /\ C22_AppendedBytesAreOneArchive
    /\ (op = "Archive::read" /\ origin = "sink" /\ source = sink /\ TwoWritesOfWritable)
       => (rresult.ok /\ rresult.val = appended)

\* two non-empty writes read back as the records of both, in order
C22_WitnessReadBack ==
    /\ op = "Archive::read" /\ origin = "sink" /\ source = sink
    /\ TwoWritesOfWritable
    /\ Len(archive) > 0 /\ Len(appended) > Len(archive)
    /\ rresult.ok /\ rresult.val = appended

\* what Record::read returns for the bytes pos+1..end of the source alone
Alone(src, pos, end) == Record_read(SubSeq(src, pos + 1, end), 0)

\* every record of the source from pos on, read from a stream that holds
\* its bytes only, is the record read in place and takes the same bytes
RECURSIVE DecodesAlone(_, _)
DecodesAlone(src, pos) ==
    LET r == Record_read(src, pos)
    IN r.ok => /\ Alone(src, pos, r.pos) = Ok(r.val, r.pos - pos)
               /\ DecodesAlone(src, r.pos)

\* the records of the source from pos on, each read from its own bytes
RECURSIVE AloneDecodings(_, _)
AloneDecodings(src, pos) ==
    LET r == Record_read(src, pos)
    IN IF r.ok THEN <<Alone(src, pos, r.pos).val>> \o AloneDecodings(src, r.pos)
       ELSE <<>>

\* the magic number is somewhere after the first record
MagicNotFirst(records) ==
    \E i \in 2..Len(records) : records[i].kind = "MagicNumber"

\* C23: the codec keeps no state between records and enforces no order:
\* Archive::write and Archive::read succeed on archives without a magic
\* number, with the magic number after other records and with events whose
\* indices no earlier String or Thread record interned; a record decoded at
\* any position is what its own bytes decode to.
C23_NoStateBetweenRecords ==
    /\ (op = "Archive::write" /\ ~HasUnwritable(archive)) => wresult.ok
    /\ (op = "Archive::read" /\ origin = "sink" /\ source = sink /\ ~HasUnwritable(appended))
       => rresult.ok
    /\ op = "Archive::read"
       => /\ DecodesAlone(source, 0)
          /\ rresult.ok => rresult.val = AloneDecodings(source, 0)

\* an event with indices nothing interned, then a String record, then the
\* magic number: written and read back as they are
C23_Witness ==
    /\ op = "Archive::read" /\ origin = "sink" /\ source = sink
    /\ ~HasUnwritable(appended)
    /\ MagicNotFirst(appended)
    /\ appended[1] = R_instant
    /\ rresult.ok /\ rresult.val = appended

\* an archive without a magic number
C23_WitnessNoMagic ==
    /\ op = "Archive::read" /\ origin = "sink" /\ source = sink
    /\ ~HasUnwritable(appended)
    /\ Len(appended) >= 2
    /\ \A i \in 1..Len(appended) : appended[i].kind # "MagicNumber"
    /\ rresult.ok /\ rresult.val = appended

\* number of leading records whose encodings lie wholly in the first k bytes
RECURSIVE WhollyContained(_, _, _)
WhollyContained(records, k, n) ==
    IF n < Len(records) /\ Len(Encodings(records, n + 1)) <= k
    THEN WhollyContained(records, k, n + 1)
    ELSE n

\* the source is the first bytes of what one Archive::write of writable
\* records put into an empty sink
PrefixOfWrittenArchive ==
    /\ origin = "sink" /\ nwrites = 1
    /\ ~HasUnwritable(appended)
    /\ source = SubSeq(sink, 1, Len(source))

\* C24: Archive::read of the first k bytes of a written archive returns Ok
\* with the records that lie wholly in those k bytes, a prefix of the
\* archive's records.
C24_TruncationGivesPrefix ==
    (op = "Archive::read" /\ PrefixOfWrittenArchive)
    => /\ rresult.ok
       /\ rresult.val = SubSeq(appended, 1, WhollyContained(appended, Len(source), 0))

\* an archive cut inside its last record, read back without that record
C24_WitnessCutMidRecord ==
    /\ op = "Archive::read" /\ PrefixOfWrittenArchive
    /\ Len(appended) = 3
    /\ Len(source) < Len(sink)
    /\ Len(source) > Len(Encodings(appended, 2))
    /\ rresult.ok /\ rresult.val = SubSeq(appended, 1, 2)

\* a record whose own encoding reads back as the record itself
ReadsBackAsItself(r) ==
    Record_read(Record_write(r).bytes, 0) = Ok(r, Len(Record_write(r).bytes))

\* the same truncation property, for archives of records that read back as
\* themselves
C24_TruncationOfRoundTrippingRecords ==
    (/\ op = "Archive::read" /\ PrefixOfWrittenArchive
     /\ \A i \in 1..Len(appended) : ReadsBackAsItself(appended[i]))
    => /\ rresult.ok
       /\ rresult.val = SubSeq(appended, 1, WhollyContained(appended, Len(source), 0))

\* the header word of the String record last written
StringHeader == from_le_bytes(SubSeq(ret, 1, 8))

\* C25: for every String record with a value of 0..=32767 bytes the header
\* carries 1 + ceil(len/8) in bits 4-15, the index modulo 2^15 in bits
\* 16-30, 0 in bit 31 and len in bits 32-46, and exactly ceil(len/8) payload
\* words follow it.
C25_StringHeaderCarriesItsSize ==
    (op = "StringRecord::write" /\ Len(call.value) <= 32767)
    => /\ AsNat(extract_bits(StringHeader, 4, 15), 12) = 1 + DivCeil(Len(call.value), 8)
       /\ AsNat(extract_bits(StringHeader, 16, 30), 15) = call.index % 32768
       /\ StringHeader[31] = 0
       /\ AsNat(extract_bits(StringHeader, 32, 46), 15) = Len(call.value)
       /\ Len(ret) = 8 + 8 * DivCeil(Len(call.value), 8)

\* every part of the property but the size field
C25_StringHeaderButItsSize ==
    (op = "StringRecord::write" /\ Len(call.value) <= 32767)
    => /\ AsNat(extract_bits(StringHeader, 4, 15), 12) = (1 + DivCeil(Len(call.value), 8)) % 256
       /\ AsNat(extract_bits(StringHeader, 16, 30), 15) = call.index % 32768
       /\ StringHeader[31] = 0
       /\ AsNat(extract_bits(StringHeader, 32, 46), 15) = Len(call.value)
       /\ Len(ret) = 8 + 8 * DivCeil(Len(call.value), 8)

\* a String record of 255 words, the longest whose size the header holds
C25_WitnessLongestExact ==
    /\ op = "StringRecord::write"
    /\ Len(call.value) = 2032
    /\ AsNat(extract_bits(StringHeader, 4, 15), 12) = 255

\* an event was written by the last Record::write; its thread is inline or
\* an index other than 0, which the reader takes the way it was written
EventWritten ==
    /\ op = "Record::write" /\ archive[1].kind = "Event" /\ wresult.ok
    /\ ThreadRef_to_field(archive[1].thread) = 0 => archive[1].thread.inline

\* bits 20-23 of the header of the event last written
ArgumentCountField == AsNat(extract_bits(WordAt(wresult.bytes, 1), 20, 23), 4)

\* C26: the argument-count field of a written event (bits 20-23) is the
\* number of arguments emitted, and the reader reads exactly that many, so
\* that it ends where the written record ends.
C26_ArgumentCountMatchesArguments ==
    EventWritten
    => /\ ArgumentCountField = Len(archive[1].arguments)
       /\ Record_read(wresult.bytes, 0).ok
       /\ Len(Record_read(wresult.bytes, 0).val.arguments) = ArgumentCountField
       /\ Record_read(wresult.bytes, 0).pos = Len(wresult.bytes)

\* the field holds the number of arguments modulo 16, and the reader reads
\* as many arguments as the field says
C26_ArgumentCountIsModulo16 ==
    EventWritten
    => /\ ArgumentCountField = Len(archive[1].arguments) % 16
       /\ Record_read(wresult.bytes, 0).ok
          => Len(Record_read(wresult.bytes, 0).val.arguments) = ArgumentCountField

\* an event of 12 arguments, read to the end of what was written
C26_WitnessTwelveArguments ==
    /\ EventWritten
    /\ Len(archive[1].arguments) = 12
    /\ ArgumentCountField = 12
    /\ Record_read(wresult.bytes, 0).ok
    /\ Record_read(wresult.bytes, 0).pos = Len(wresult.bytes)

NonMagicMetadata == {"TraceInfo", "ProviderInfo", "ProviderSection", "ProviderEvent"}

\* two references whose fields are meant to tell them apart: one of them is
\* an index (two inline strings of one length, or two inline threads, share
\* their field and differ in the words that follow)
ToldApartByField ==
    \/ ~call[1].inline
    \/ ~call[2].inline
    \/ op = "StringRef::to_field pair" /\ Len(call[1].s) # Len(call[2].s)

\* C27: two different records that Record::write accepts never get the same
\* bytes; no TraceInfo, ProviderInfo, ProviderSection or ProviderEvent record
\* is written as the magic-number word; no two different StringRef or
\* ThreadRef values get the same field.
C27_EncodingIsInjective ==
    /\ (op = "Record::write pair" /\ ret[1].ok /\ ret[2].ok)
       => /\ ret[1].bytes # ret[2].bytes
          /\ call[1].kind \in NonMagicMetadata => SubSeq(ret[1].bytes, 1, 8) # MagicBytes
    /\ (op \in {"StringRef::to_field pair", "ThreadRef::to_field pair"} /\ ToldApartByField)
       => ret[1] # ret[2]

\* records that read back as themselves are written as different bytes
C27_RoundTrippingRecordsEncodeApart ==
    (/\ op = "Record::write pair"
     /\ ReadsBackAsItself(call[1]) /\ ReadsBackAsItself(call[2]))
    => ret[1].bytes # ret[2].bytes

\* indices that fit their field get different fields
C27_IndicesInRangeEncodeApart ==
    /\ (op = "StringRef::to_field pair" /\ ToldApartByField
        /\ \A i \in 1..2 : call[i].inline \/ call[i].r < 32768)
       => ret[1] # ret[2]
    /\ (op = "ThreadRef::to_field pair" /\ ToldApartByField
        /\ \A i \in 1..2 : call[i].inline \/ call[i].r > 0)
       => ret[1] # ret[2]

\* two String records that read back as themselves, written apart
C27_WitnessEncodedApart ==
    /\ op = "Record::write pair"
    /\ call[1].kind = "String" /\ call[2].kind = "String"
    /\ ReadsBackAsItself(call[1]) /\ ReadsBackAsItself(call[2])
    /\ ret[1].ok /\ ret[2].ok
    /\ ret[1].bytes # ret[2].bytes

\* every Record::read of the loop from pos on that returns a record has moved
\* the cursor by 8 bytes or more, and not past the end of the source
RECURSIVE TakesAWord(_, _)
TakesAWord(src, pos) ==
    LET r == Record_read(src, pos)
    IN r.ok => /\ r.pos >= pos + 8
               /\ r.pos <= Len(src)
               /\ TakesAWord(src, r.pos)

\* C28: Archive::read terminates on every finite source: every Record::read
\* of its loop that returns a record has moved the cursor by at least 8
\* bytes, the cursor never passes the end of the source, and a source of n
\* bytes yields at most floor(n/8) records.
C28_EveryRecordTakesAWord ==
    op = "Archive::read"
    => /\ TakesAWord(source, 0)
       /\ rresult.pos <= Len(source)
       /\ rresult.ok => Len(rresult.val) <= Len(source) \div 8

\* a source of which every word is a record
C28_Witness ==
    /\ op = "Archive::read"
    /\ rresult.ok
    /\ Len(rresult.val) >= 2
    /\ Len(rresult.val) = Len(source) \div 8

\* one of the two record headers is the magic-number word
MagicAmongTwins ==
    /\ call.word = 0
    /\ \/ SubSeq(call.stream, 1, 8) = MagicBytes
       \/ SubSeq(call.twin, 1, 8) = MagicBytes

\* C29 as stated: for two streams that differ only in bits 4-15 of a record
\* header or of an argument header, Record::read returns the same record and
\* consumes the same number of bytes.
C29_SizeFieldIsNeverRead ==
    op = "Record::read twins" => ret.first = ret.twin

\* C29: for two streams that differ only in bits 4-15 of a record header or
\* of an argument header, neither record header being the magic-number word,
\* Record::read returns the same result and consumes the same number of
\* bytes.
C29_SizeFieldIsReadForMagicOnly ==
    (op = "Record::read twins" /\ ~MagicAmongTwins) => ret.first = ret.twin

\* an event read alike whatever the size in the header of its argument
C29_Witness ==
    /\ op = "Record::read twins"
    /\ call.word = 2
    /\ ret.first.ok /\ ret.first.val.kind = "Event"
    /\ Len(ret.first.val.arguments) = 1
    /\ ret.first = ret.twin

\* a record read alike whatever the size in its header
C29_WitnessRecordHeader ==
    /\ op = "Record::read twins"
    /\ call.word = 0
    /\ ret.first.ok /\ ret.first.val.kind = "Thread"
    /\ ret.first = ret.twin

\* the magic number with another size, read as a TraceInfo record
C29_WitnessMagic ==
    /\ op = "Record::read twins"
    /\ SubSeq(call.stream, 1, 8) = MagicBytes
    /\ ret.first.ok /\ ret.first.val.kind = "MagicNumber"
    /\ ret.twin.ok /\ ret.twin.val.kind = "TraceInfo"

\* the first Record::read of the source that fails
FirstFailure(src) == Record_read(src, Boundary(src, 0))

\* C30: when a Record::read inside Archive::read fails with anything but an
\* unexpected end of the stream, Archive::read returns that error and none
\* of the records decoded before it.
C30_ErrorDropsDecodedRecords ==
    (op = "Archive::read" /\ FirstFailure(source).err # UnexpectedEof)
    => /\ ~rresult.ok
       /\ rresult.err = FirstFailure(source).err
       /\ "val" \notin DOMAIN rresult

\* a stream of a good record followed by a word no record starts with
C30_Witness ==
    /\ op = "Archive::read"
    /\ CompleteRecords(source, 0) >= 1
    /\ FirstFailure(source).err # UnexpectedEof
    /\ ~rresult.ok
    /\ rresult.err = FirstFailure(source).err

====
